---- MODULE Spec2Model ----
(***************************************************************************)
(* Model of the CRUD services of docker-fullstack-lab.                     *)
(*                                                                         *)
(* One behaviour follows ONE of the applications (variable app, fixed by   *)
(* Init): its table, its id sequence, a logical clock, the reachability of *)
(* its datastore, the state of its server process and the last HTTP        *)
(* exchange.  Every HTTP handler is an operator translated from its source *)
(* and one action that applies it to a request drawn from a small set.     *)
(*                                                                         *)
(* JSON values are encoded as strings: a JSON string is itself, the JSON   *)
(* booleans are "TRUE"/"FALSE", JSON null is "NULL", JSON numbers are      *)
(* their decimal text.  A request body is a function from the keys it      *)
(* carries to such values.                                                 *)
(***************************************************************************)
EXTENDS Integers, Sequences, FiniteSets, TLC

VARIABLES app, mode, server, dbUp, dbInit, readyState, table, nextId, now,
          resp, deleted, createdWith,
          \* the connection accessors: the object the static or module variable
          \* holds (0: none), the number of objects created and the objects returned in
          \* the current scope, the next object, the accessor calls of the scope,
          \* and whether the scope (PHP request, Node process) still runs
          instance, opened, returned, nextObj, calls, running,
          \* the last request Router.dispatch was given and what it did with it
          routed,
          \* an update and a delete of the same record in flight: the position
          \* of each request in its handler and what it has read so far
          race,
          \* two requests of the same kind (two updates, two deletes) for the
          \* same record in flight: the position of each in its handler, its
          \* body, what it has read so far and its response status
          pair,
          \* the browser side of react-node and vue-express: the list the root
          \* component holds, its loading and error state, and the API calls it
          \* has made, each sent, served by the backend or delivered
          ui,
          \* dotnet-postgres: the last GET /api/v1/products, with its skip and
          \* limit parameters, the rows stored when it ran and its answer
          page

connVars == <<instance, opened, returned, nextObj, calls, running>>

routerVars == <<routed>>

raceVars == <<race>>

pairVars == <<pair>>

\* the variables only the later specifications change
uiVars == <<ui>>

pageVars == <<page>>

laterVars == <<pairVars, uiVars, pageVars>>

\* the variables the HTTP handlers leave alone
side == <<connVars, routerVars, raceVars, laterVars>>

vars == <<app, mode, server, dbUp, dbInit, readyState, table, nextId, now,
          resp, deleted, createdWith, side>>

(***************************************************************************)
(* Bounds                                                                  *)
(***************************************************************************)
\* number of records a behaviour may insert
MaxId == 2
\* number of writes (inserts and updates) a behaviour may perform
MaxClock == 2
\* number of connection objects a behaviour may create, and of accessor calls
\* in one request or process
MaxObjects == 3
MaxCalls == 3

Apps == {"todo", "student", "post", "product", "lpost", "item", "user", "note", "employee"}
Modes == {"production", "development"}

(***************************************************************************)
(* JSON values                                                             *)
(***************************************************************************)
Strings == {"", " ", "a", " a", "b", "a@x.io", "b@x.io", "A", "B", "Z",
            "books", "food", "w1", "w2", "yes", "admin", "user"}
Bools == {"TRUE", "FALSE"}
Numbers == {"0", "1", "5", "-1"}
Null == "NULL"

IsString(v) == v \in Strings
IsBoolean(v) == v \in Bools
IsEmail(v) == v \in {"a@x.io", "b@x.io"}

\* String.prototype.trim / PHP trim on the strings of the model
Trim(s) == CASE s = " " -> ""
             [] s = " a" -> "a"
             [] OTHER -> s

Has(body, k) == k \in DOMAIN body

\* a path segment: the decimal ids, and a segment that is not a number
PathIds == {"1", "2", "abc"}
NaN == -1

\* JavaScript parseInt(params.id)
parseInt(p) == CASE p = "1" -> 1 [] p = "2" -> 2 [] p = "3" -> 3 [] OTHER -> NaN

\* PHP (int)$params['id']: a non-numeric string casts to 0
phpInt(p) == CASE p = "1" -> 1 [] p = "2" -> 2 [] p = "3" -> 3 [] OTHER -> 0

\* the integer a numeric path segment denotes for PostgreSQL ($1 of an int column)
\* the number a JSON value carries
TextNat(v) == CASE v = "0" -> 0 [] v = "1" -> 1 [] v = "2" -> 2 [] OTHER -> NaN

IsIntText(p) == p \in {"1", "2", "3"}

(***************************************************************************)
(* Rows, tables and HTTP exchanges                                         *)
(***************************************************************************)
Row(i, f, c, u) == [id |-> i, f |-> f, created |-> c, updated |-> u]

Exists(t, i) == i \in DOMAIN t

Insert(t, r) == [j \in DOMAIN t \cup {r.id} |-> IF j = r.id THEN r ELSE t[j]]

Remove(t, i) == [j \in DOMAIN t \ {i} |-> t[j]]

EmptyTable == [j \in {} |-> Row(0, <<>>, 0, 0)]

EmptyBody == [k \in {} |-> ""]

Rows(t) == {t[i] : i \in DOMAIN t}

\* ORDER BY created_at DESC
RECURSIVE OrderByCreatedDesc(_)
OrderByCreatedDesc(S) ==
    IF S = {} THEN <<>>
    ELSE LET m == CHOOSE r \in S : \A q \in S : q.created <= r.created
         IN <<m>> \o OrderByCreatedDesc(S \ {m})

\* the orders in which a query without ORDER BY or sort may return the rows of
\* t: every arrangement of its keys
Arrangements(t) ==
    {o \in [1..Cardinality(DOMAIN t) -> DOMAIN t] : {o[i] : i \in DOMAIN o} = DOMAIN t}

\* the rows of S, taken from t in the order o of its keys
InOrder(t, o, S) == SelectSeq([i \in DOMAIN o |-> t[o[i]]], LAMBDA r : r \in S)

\* the result of a handler: the response and the table, id sequence and clock it leaves
Result(st, rw, er, nm, sk, t, n, c) ==
    [status |-> st, row |-> rw, error |-> er, detail |-> "", named |-> nm,
     stack |-> sk, list |-> <<>>, dbFailed |-> 0, probe |-> "none", table |-> t,
     nextId |-> n, now |-> c]

\* a result reached because one database call of the handler failed
DbFailed(r) == [r EXCEPT !.dbFailed = 1]

\* a result of a health handler that sent its probe query before responding
Probed(r) == [r EXCEPT !.probe = "query"]

\* a result of a health handler that got no further than opening the connection
ConnectOnly(r) == [r EXCEPT !.probe = "connect"]

\* a result whose body carries the message of the exception that caused it
WithDetail(r, msg) == [r EXCEPT !.detail = msg]

NoResp == [op |-> "NONE", path |-> "", body |-> EmptyBody, query |-> "",
           status |-> 0, row |-> <<>>, error |-> "", detail |-> "", named |-> {},
           stack |-> FALSE, list |-> <<>>, dbFailed |-> 0, ready |-> 0, probe |-> "none",
           dbUp |-> TRUE, gone |-> FALSE,
           fresh |-> FALSE, before |-> <<>>]

\* messages of the exceptions the drivers raise
NoRelation == "relation \"posts\" does not exist"
ConnRefused == "connect ECONNREFUSED db"
BadIntSyntax == "invalid input syntax for type integer"
InternalMessages == {NoRelation, ConnRefused, BadIntSyntax}

(***************************************************************************)
(* react-node backend: /api/v1/todos                                       *)
(***************************************************************************)
TodoFields == {"title", "completed"}

TodoBodies ==
    {EmptyBody,
     [k \in {"title"} |-> "a"], [k \in {"title"} |-> " a"],
     [k \in {"title"} |-> "b"], [k \in {"title"} |-> " "],
     [k \in {"title"} |-> "5"],
     [k \in {"completed"} |-> "TRUE"], [k \in {"completed"} |-> "yes"],
     [k \in {"title", "completed"} |-> IF k = "title" THEN "b" ELSE "TRUE"],
     [k \in {"foo"} |-> "a"]}

\* app.js global error handler: the body carries err.message, and the stack
\* outside production
todoErrorHandler(msg, md, t, n, c) ==
    WithDetail(Result(500, <<>>, IF msg = "" THEN "Internal Server Error" ELSE msg, {},
                      md # "production", t, n, c), msg)

\* next(err) for the error a failed pool.query threw
todoQueryFailed(msg, md, t, n, c) == DbFailed(todoErrorHandler(msg, md, t, n, c))

\* what pool.query throws for a statement bound to path segment p, "" if it runs
todoQueryError(up, p) ==
    IF ~up THEN ConnRefused
    ELSE IF ~IsIntText(p) THEN BadIntSyntax
    ELSE ""

\* JavaScript !title for the JSON values of the model
jsFalsy(v) == v \in {"", "FALSE", "NULL", "0"}

createTodo(body, up, md, t, n, c) ==
    IF ~Has(body, "title") \/ jsFalsy(body["title"]) \/ ~IsString(body["title"])
       \/ Trim(body["title"]) = ""
    THEN Result(400, <<>>, "title is required and must be a non-empty string",
                {"title"}, FALSE, t, n, c)
    ELSE IF ~up THEN todoQueryFailed(ConnRefused, md, t, n, c)
    ELSE LET r == Row(n, [k \in TodoFields |->
                            IF k = "title" THEN Trim(body["title"]) ELSE "FALSE"],
                      c + 1, c + 1)
         IN Result(201, <<r>>, "", {}, FALSE, Insert(t, r), n + 1, c + 1)

getTodo(p, up, md, t, n, c) ==
    IF todoQueryError(up, p) # ""
    THEN todoQueryFailed(todoQueryError(up, p), md, t, n, c)
    ELSE IF ~Exists(t, parseInt(p))
    THEN Result(404, <<>>, "Todo not found", {}, FALSE, t, n, c)
    ELSE Result(200, <<t[parseInt(p)]>>, "", {}, FALSE, t, n, c)

\* updateTodo without "updated_at = NOW()" in its SET clause
updateTodo_NoStamp(p, body, up, md, t, n, c) ==
    IF Has(body, "title") /\ (~IsString(body["title"]) \/ Trim(body["title"]) = "")
    THEN Result(400, <<>>, "title must be a non-empty string", {"title"}, FALSE, t, n, c)
    ELSE IF Has(body, "completed") /\ ~IsBoolean(body["completed"])
    THEN Result(400, <<>>, "completed must be a boolean", {"completed"}, FALSE, t, n, c)
    ELSE IF ~Has(body, "title") /\ ~Has(body, "completed")
    THEN Result(400, <<>>, "Provide at least one field to update: title or completed",
                {"title", "completed"}, FALSE, t, n, c)
    ELSE IF todoQueryError(up, p) # ""
    THEN todoQueryFailed(todoQueryError(up, p), md, t, n, c)
    ELSE IF ~Exists(t, parseInt(p))
    THEN Result(404, <<>>, "Todo not found", {}, FALSE, t, n, c)
    ELSE LET old == t[parseInt(p)]
             r == Row(old.id,
                      [k \in TodoFields |->
                         IF k = "title" /\ Has(body, "title") THEN Trim(body["title"])
                         ELSE IF k = "completed" /\ Has(body, "completed")
                              THEN body["completed"]
                         ELSE old.f[k]],
                      old.created, old.updated)
         IN Result(200, <<r>>, "", {}, FALSE, Insert(t, r), n, c + 1)

updateTodo(p, body, up, md, t, n, c) ==
    IF Has(body, "title") /\ (~IsString(body["title"]) \/ Trim(body["title"]) = "")
    THEN Result(400, <<>>, "title must be a non-empty string", {"title"}, FALSE, t, n, c)
    ELSE IF Has(body, "completed") /\ ~IsBoolean(body["completed"])
    THEN Result(400, <<>>, "completed must be a boolean", {"completed"}, FALSE, t, n, c)
    ELSE IF ~Has(body, "title") /\ ~Has(body, "completed")
    THEN Result(400, <<>>, "Provide at least one field to update: title or completed",
                {"title", "completed"}, FALSE, t, n, c)
    ELSE IF todoQueryError(up, p) # ""
    THEN todoQueryFailed(todoQueryError(up, p), md, t, n, c)
    ELSE IF ~Exists(t, parseInt(p))
    THEN Result(404, <<>>, "Todo not found", {}, FALSE, t, n, c)
    ELSE LET old == t[parseInt(p)]
             r == Row(old.id,
                      [k \in TodoFields |->
                         IF k = "title" /\ Has(body, "title") THEN Trim(body["title"])
                         ELSE IF k = "completed" /\ Has(body, "completed")
                              THEN body["completed"]
                         ELSE old.f[k]],
                      old.created, c + 1)
         IN Result(200, <<r>>, "", {}, FALSE, Insert(t, r), n, c + 1)

\* deleteTodo that answers 404 when the DELETE statement removed no row
deleteTodo_NotFound(p, up, md, t, n, c) ==
    IF todoQueryError(up, p) # ""
    THEN todoQueryFailed(todoQueryError(up, p), md, t, n, c)
    ELSE IF ~Exists(t, parseInt(p))
    THEN Result(404, <<>>, "Todo not found", {}, FALSE, t, n, c)
    ELSE Result(200, <<>>, "", {}, FALSE, Remove(t, parseInt(p)), n, c)

\* todo.controller.js deleteTodo: the result of the DELETE statement is not read
deleteTodo(p, up, md, t, n, c) ==
    IF todoQueryError(up, p) # ""
    THEN todoQueryFailed(todoQueryError(up, p), md, t, n, c)
    ELSE Result(200, <<>>, "", {}, FALSE,
                IF Exists(t, parseInt(p)) THEN Remove(t, parseInt(p)) ELSE t, n, c)

(***************************************************************************)
(* php-mysql: /api/students                                                *)
(***************************************************************************)
StudentFields == {"name", "email", "grade", "enrolled"}

StudentBody(n, e) == [k \in {"name", "email"} |-> IF k = "name" THEN n ELSE e]

StudentBodies ==
    {EmptyBody,
     StudentBody("a", "a@x.io"), StudentBody("b", "b@x.io"), StudentBody("a", "b"),
     [k \in {"name", "email", "enrolled"} |->
        CASE k = "name" -> "b" [] k = "email" -> "a@x.io" [] OTHER -> "TRUE"],
     [k \in {"name"} |-> "b"], [k \in {"name"} |-> ""],
     [k \in {"email"} |-> "b@x.io"],
     [k \in {"grade"} |-> "A"], [k \in {"grade"} |-> "NULL"],
     [k \in {"enrolled"} |-> "FALSE"],
     [k \in {"foo"} |-> "a"]}

\* PHP empty($body[k]): unset, null, false, 0, "" and "0"
phpEmpty(body, k) == ~Has(body, k) \/ body[k] \in {"", "0", "NULL", "FALSE"}

\* PHP isset($data[k]) and the ?? operator: set and not null
phpIsset(body, k) == Has(body, k) /\ body[k] # Null

\* PHP (int)$v as MySQL stores it in TINYINT
phpIntCast(v) == CASE v = "TRUE" -> "1"
                   [] v \in Numbers -> v
                   [] OTHER -> "0"

Grades == {"A", "B", "C", "D", "F"}

\* Database::getInstance: the connection failure is answered and the request ends
DatabaseGetInstance(t, n, c) ==
    DbFailed(WithDetail(Result(500, <<>>, "Database connection failed", {}, FALSE,
                               t, n, c), ConnRefused))

\* an exception no handler catches ends the request with PHP's 500
phpUncaught(msg, t, n, c) ==
    DbFailed(WithDetail(Result(500, <<>>, "Uncaught PDOException", {}, FALSE, t, n, c),
                        msg))

DuplicateEntry == "SQLSTATE[23000]: Duplicate entry for key email"
DataTruncated == "SQLSTATE[01000]: Data truncated for column grade"

\* the UNIQUE(email) constraint of createTable, for row id i taking email e
EmailTaken(t, i, e) == \E j \in DOMAIN t : j # i /\ t[j].f["email"] = e

StudentFindById(t, i) == IF Exists(t, i) THEN <<t[i]>> ELSE <<>>

\* Student::create
StudentCreate(data, t, n, c) ==
    LET f == [k \in StudentFields |->
                CASE k = "grade" -> IF phpIsset(data, "grade") THEN data["grade"] ELSE "C"
                  [] k = "enrolled" -> IF phpIsset(data, "enrolled")
                                       THEN phpIntCast(data["enrolled"]) ELSE "1"
                  [] OTHER -> data[k]]
        r == Row(n, f, c + 1, c + 1)
    IN IF EmailTaken(t, n, f["email"]) THEN phpUncaught(DuplicateEntry, t, n, c)
       ELSE IF f["grade"] \notin Grades THEN phpUncaught(DataTruncated, t, n, c)
       ELSE Result(201, <<r>>, "", {}, FALSE, Insert(t, r), n + 1, c + 1)

\* Student::update: ON UPDATE CURRENT_TIMESTAMP moves updated_at only when a
\* column of the row changes
StudentUpdate(i, data, t, n, c) ==
    IF ~Exists(t, i) THEN Result(404, <<>>, "Student not found", {}, FALSE, t, n, c)
    ELSE LET old == t[i]
             f == [k \in StudentFields |->
                     IF k = "enrolled"
                     THEN IF phpIsset(data, k) THEN phpIntCast(data[k]) ELSE old.f[k]
                     ELSE IF phpIsset(data, k) THEN data[k] ELSE old.f[k]]
             r == Row(i, f, old.created, IF f = old.f THEN old.updated ELSE c + 1)
         IN IF EmailTaken(t, i, f["email"]) THEN phpUncaught(DuplicateEntry, t, n, c)
            ELSE IF f["grade"] \notin Grades THEN phpUncaught(DataTruncated, t, n, c)
            ELSE Result(200, <<r>>, "", {}, FALSE, Insert(t, r), n, c + 1)

\* StudentController::store whose first error names 'name' alone
StudentController_store_NamesOne(body, up, t, n, c) ==
    IF ~up THEN DatabaseGetInstance(t, n, c)
    ELSE IF phpEmpty(body, "name") \/ phpEmpty(body, "email")
    THEN Result(400, <<>>, "'name' is required", {"name"}, FALSE, t, n, c)
    ELSE IF ~IsEmail(body["email"])
    THEN Result(400, <<>>, "Invalid email format", {"email"}, FALSE, t, n, c)
    ELSE StudentCreate(body, t, n, c)

\* StudentController::store
StudentController_store(body, up, t, n, c) ==
    IF ~up THEN DatabaseGetInstance(t, n, c)
    ELSE IF phpEmpty(body, "name") \/ phpEmpty(body, "email")
    THEN Result(400, <<>>, "'name' and 'email' are required", {"name", "email"},
                FALSE, t, n, c)
    ELSE IF ~IsEmail(body["email"])
    THEN Result(400, <<>>, "Invalid email format", {"email"}, FALSE, t, n, c)
    ELSE StudentCreate(body, t, n, c)

\* StudentController::show
\* StudentController::index: Student::findAll, ORDER BY created_at DESC
StudentController_index(up, t, n, c) ==
    IF ~up THEN DatabaseGetInstance(t, n, c)
    ELSE [Result(200, <<>>, "", {}, FALSE, t, n, c)
            EXCEPT !.list = OrderByCreatedDesc(Rows(t))]

StudentController_show(p, up, t, n, c) ==
    IF ~up THEN DatabaseGetInstance(t, n, c)
    ELSE IF StudentFindById(t, phpInt(p)) = <<>>
    THEN Result(404, <<>>, "Student not found", {}, FALSE, t, n, c)
    ELSE Result(200, StudentFindById(t, phpInt(p)), "", {}, FALSE, t, n, c)

\* StudentController::update
StudentController_update(p, body, up, t, n, c) ==
    IF ~up THEN DatabaseGetInstance(t, n, c)
    ELSE StudentUpdate(phpInt(p), body, t, n, c)

\* StudentController::destroy
StudentController_destroy(p, up, t, n, c) ==
    IF ~up THEN DatabaseGetInstance(t, n, c)
    ELSE IF StudentFindById(t, phpInt(p)) = <<>>
    THEN Result(404, <<>>, "Student not found", {}, FALSE, t, n, c)
    ELSE Result(200, <<>>, "", {}, FALSE, Remove(t, phpInt(p)), n, c)

(***************************************************************************)
(* nextjs-postgres: /api/posts and /api/posts/[id]                         *)
(***************************************************************************)
PostFields == {"title", "content", "author", "published"}

PostBody(ti, co) == [k \in {"title", "content"} |-> IF k = "title" THEN ti ELSE co]

PostBodies ==
    {EmptyBody,
     PostBody("a", "a"), PostBody(" a", "b"), PostBody("5", "a"), PostBody(" ", "a"),
     [k \in {"title", "content", "author"} |-> IF k = "author" THEN "" ELSE "b"],
     [k \in {"title", "content", "published"} |-> IF k = "published" THEN "TRUE" ELSE "a"],
     [k \in {"title"} |-> "b"], [k \in {"title"} |-> ""], [k \in {"title"} |-> "NULL"],
     [k \in {"content"} |-> "b"],
     [k \in {"published"} |-> "TRUE"],
     [k \in {"foo"} |-> "a"]}

NotAFunction == "body.title?.trim is not a function"

\* body.k?.trim(): undefined for a missing or null k, a TypeError for a value
\* that is no string, the trimmed string otherwise
Nullish(body, k) == ~Has(body, k) \/ body[k] = Null

\* a NextResponse with status 500 carrying error.message
postError(msg, t, n, c) ==
    WithDetail(Result(500, <<>>, msg, {}, FALSE, t, n, c), msg)

\* createPost that binds no $4: published always takes the column default
createPost_IgnoresPublished(body, t, n, c) ==
    LET f == [k \in PostFields |->
                CASE k = "author" ->
                       IF Nullish(body, k) \/ jsFalsy(body[k]) THEN "Anonymous" ELSE body[k]
                  [] k = "published" -> "FALSE"
                  [] OTHER -> body[k]]
        r == Row(n, f, c + 1, c + 1)
    IN Result(201, <<r>>, "", {}, FALSE, Insert(t, r), n + 1, c + 1)

\* lib/posts.js createPost
createPost(body, t, n, c) ==
    LET f == [k \in PostFields |->
                CASE k = "author" ->
                       IF Nullish(body, k) \/ jsFalsy(body[k]) THEN "Anonymous" ELSE body[k]
                  [] k = "published" -> IF Nullish(body, k) THEN "FALSE" ELSE body[k]
                  [] OTHER -> body[k]]
        r == Row(n, f, c + 1, c + 1)
    IN Result(201, <<r>>, "", {}, FALSE, Insert(t, r), n + 1, c + 1)

\* lib/posts.js updatePost: COALESCE($k, k) keeps the column for null and undefined
updatePost(i, body, t, n, c) ==
    IF ~Exists(t, i) THEN Result(404, <<>>, "Post not found", {}, FALSE, t, n, c)
    ELSE LET old == t[i]
             r == Row(i, [k \in PostFields |->
                            IF Nullish(body, k) THEN old.f[k] ELSE body[k]],
                      old.created, c + 1)
         IN Result(200, <<r>>, "", {}, FALSE, Insert(t, r), n, c + 1)

\* what query() throws for a statement on posts bound to parseInt(p), "" if it
\* runs: the server is unreachable, or it has no posts table (tbl is false), or
\* the parameter is no integer
postQueryError(up, tbl, p) ==
    IF ~up THEN ConnRefused
    ELSE IF ~tbl THEN NoRelation
    ELSE IF parseInt(p) = NaN THEN BadIntSyntax
    ELSE ""

\* api/posts/route.js POST
PostsPOST(body, up, tbl, t, n, c) ==
    IF (~Nullish(body, "title") /\ ~IsString(body["title"]))
    THEN postError(NotAFunction, t, n, c)
    ELSE IF Nullish(body, "title") \/ Trim(body["title"]) = ""
    THEN Result(400, <<>>, "'title' and 'content' are required", {"title", "content"},
                FALSE, t, n, c)
    ELSE IF (~Nullish(body, "content") /\ ~IsString(body["content"]))
    THEN postError(NotAFunction, t, n, c)
    ELSE IF Nullish(body, "content") \/ Trim(body["content"]) = ""
    THEN Result(400, <<>>, "'title' and 'content' are required", {"title", "content"},
                FALSE, t, n, c)
    ELSE IF postQueryError(up, tbl, "1") # ""
    THEN DbFailed(postError(postQueryError(up, tbl, "1"), t, n, c))
    ELSE createPost(body, t, n, c)

\* api/posts/[id]/route.js GET
PostsGET(p, up, tbl, t, n, c) ==
    IF postQueryError(up, tbl, p) # "" THEN DbFailed(postError(postQueryError(up, tbl, p), t, n, c))
    ELSE IF ~Exists(t, parseInt(p))
    THEN Result(404, <<>>, "Post not found", {}, FALSE, t, n, c)
    ELSE Result(200, <<t[parseInt(p)]>>, "", {}, FALSE, t, n, c)

\* api/posts/[id]/route.js PUT
PostsPUT(p, body, up, tbl, t, n, c) ==
    IF postQueryError(up, tbl, p) # "" THEN DbFailed(postError(postQueryError(up, tbl, p), t, n, c))
    ELSE updatePost(parseInt(p), body, t, n, c)

\* PostsDELETE that reports success without looking at the statement's result
PostsDELETE_Idempotent(p, up, tbl, t, n, c) ==
    IF postQueryError(up, tbl, p) # "" THEN DbFailed(postError(postQueryError(up, tbl, p), t, n, c))
    ELSE Result(200, <<>>, "", {}, FALSE,
                IF Exists(t, parseInt(p)) THEN Remove(t, parseInt(p)) ELSE t, n, c)

\* api/posts/[id]/route.js DELETE
PostsDELETE(p, up, tbl, t, n, c) ==
    IF postQueryError(up, tbl, p) # "" THEN DbFailed(postError(postQueryError(up, tbl, p), t, n, c))
    ELSE IF ~Exists(t, parseInt(p))
    THEN Result(404, <<>>, "Post not found", {}, FALSE, t, n, c)
    ELSE Result(200, <<>>, "", {}, FALSE, Remove(t, parseInt(p)), n, c)

listTodos(up, md, t, n, c) ==
    IF ~up THEN todoQueryFailed(ConnRefused, md, t, n, c)
    ELSE [Result(200, <<>>, "", {}, FALSE, t, n, c)
            EXCEPT !.list = OrderByCreatedDesc(Rows(t))]

\* nextjs-postgres api/posts/route.js GET: getAllPosts, ORDER BY created_at DESC
PostsList(up, tbl, t, n, c) ==
    IF postQueryError(up, tbl, "1") # ""
    THEN DbFailed(postError(postQueryError(up, tbl, "1"), t, n, c))
    ELSE [Result(200, <<>>, "", {}, FALSE, t, n, c)
            EXCEPT !.list = OrderByCreatedDesc(Rows(t))]

(***************************************************************************)
(* express-mongo: /api/v1/products                                         *)
(***************************************************************************)
ProductFields == {"name", "description", "price", "category", "inStock"}

Categories == {"electronics", "clothing", "books", "food", "other"}

ProductBody(nm, pr) == [k \in {"name", "price"} |-> IF k = "name" THEN nm ELSE pr]

ProductBodies ==
    {EmptyBody,
     ProductBody("a", "5"), ProductBody(" a", "0"), ProductBody("a", "-1"),
     [k \in {"name", "price", "category"} |->
        CASE k = "name" -> "b" [] k = "price" -> "5" [] OTHER -> "books"],
     [k \in {"name", "price", "category"} |->
        CASE k = "name" -> "b" [] k = "price" -> "1" [] OTHER -> "food"],
     [k \in {"name"} |-> "b"], [k \in {"name"} |-> " "],
     [k \in {"price"} |-> "1"],
     [k \in {"category"} |-> "food"], [k \in {"category"} |-> "Z"]}

\* update bodies that also carry the keys the store manages
ProductUpdateBodies ==
    ProductBodies \cup
    {[k \in {"_id"} |-> "2"],
     [k \in {"name", "_id"} |-> IF k = "name" THEN "b" ELSE "1"],
     [k \in {"name", "createdAt"} |-> IF k = "name" THEN "b" ELSE "0"]}

\* the schema's validators for a value offered for path k; strings are trimmed
\* (trim: true) before they are validated
productInvalid(k, v) ==
    CASE k = "name" -> v = Null \/ Trim(v) = ""
      [] k = "price" -> v \notin Numbers \/ v = "-1"
      [] k = "category" -> v # Null /\ Trim(v) \notin Categories
      [] k = "inStock" -> v # Null /\ ~IsBoolean(v)
      [] OTHER -> FALSE

\* the value the schema stores for path k
productCast(k, v) == IF k \in {"name", "description", "category"} THEN Trim(v) ELSE v

productDefault(k) ==
    CASE k = "description" -> "" [] k = "category" -> "other"
      [] k = "inStock" -> "TRUE" [] OTHER -> Null

\* the paths document validation rejects on save: required paths must be present
productCreateErrors(body) ==
    {k \in ProductFields :
       IF Nullish(body, k) THEN k \in {"name", "price"} ELSE productInvalid(k, body[k])}

\* the paths update validators (runValidators: true) reject: only paths of the update
productUpdateErrors(body) ==
    {k \in ProductFields : Has(body, k) /\ productInvalid(k, body[k])}

\* an id that casts to an ObjectId
IsObjectId(p) == p # "abc"

createProduct(body, up, t, n, c) ==
    IF productCreateErrors(body) # {}
    THEN Result(400, <<>>, "Product validation failed", productCreateErrors(body),
                FALSE, t, n, c)
    ELSE IF ~up
    THEN DbFailed(Result(500, <<>>, "Server error while creating product", {},
                         FALSE, t, n, c))
    ELSE LET r == Row(n, [k \in ProductFields |->
                            IF ~Has(body, k) THEN productDefault(k)
                            ELSE productCast(k, body[k])],
                      c + 1, c + 1)
         IN Result(201, <<r>>, "", {}, FALSE, Insert(t, r), n + 1, c + 1)

\* getProduct without the isCastError branch: a CastError falls through to 500
getProduct_NoCastCheck(p, up, t, n, c) ==
    IF ~IsObjectId(p) \/ ~up
    THEN DbFailed(Result(500, <<>>, "Server error while fetching product", {},
                         FALSE, t, n, c))
    ELSE IF ~Exists(t, parseInt(p))
    THEN Result(404, <<>>, "Product not found", {}, FALSE, t, n, c)
    ELSE Result(200, <<t[parseInt(p)]>>, "", {}, FALSE, t, n, c)

getProduct(p, up, t, n, c) ==
    IF ~IsObjectId(p)
    THEN Result(400, <<>>, "Invalid product ID format", {}, FALSE, t, n, c)
    ELSE IF ~up
    THEN DbFailed(Result(500, <<>>, "Server error while fetching product", {},
                         FALSE, t, n, c))
    ELSE IF ~Exists(t, parseInt(p))
    THEN Result(404, <<>>, "Product not found", {}, FALSE, t, n, c)
    ELSE Result(200, <<t[parseInt(p)]>>, "", {}, FALSE, t, n, c)

\* findByIdAndUpdate(id, req.body): the paths of the schema are set; _id is
\* immutable in the store, so an update that would change it fails; the
\* timestamps plugin drops createdAt from the update and sets updatedAt
updateProduct(p, body, up, t, n, c) ==
    IF ~IsObjectId(p)
    THEN Result(400, <<>>, "Invalid product ID format", {}, FALSE, t, n, c)
    ELSE IF productUpdateErrors(body) # {}
    THEN Result(400, <<>>, "Validation failed", productUpdateErrors(body), FALSE, t, n, c)
    ELSE IF ~up
    THEN DbFailed(Result(500, <<>>, "Server error while updating product", {},
                         FALSE, t, n, c))
    ELSE IF ~Exists(t, parseInt(p))
    THEN Result(404, <<>>, "Product not found", {}, FALSE, t, n, c)
    ELSE IF Has(body, "_id") /\ TextNat(body["_id"]) # parseInt(p)
    THEN DbFailed(Result(500, <<>>, "Server error while updating product", {},
                         FALSE, t, n, c))
    ELSE LET old == t[parseInt(p)]
             r == Row(old.id, [k \in ProductFields |->
                                 IF Has(body, k) THEN productCast(k, body[k])
                                 ELSE old.f[k]],
                      old.created, c + 1)
         IN Result(200, <<r>>, "", {}, FALSE, Insert(t, r), n, c + 1)

deleteProduct(p, up, t, n, c) ==
    IF ~IsObjectId(p)
    THEN Result(400, <<>>, "Invalid product ID format", {}, FALSE, t, n, c)
    ELSE IF ~up
    THEN DbFailed(Result(500, <<>>, "Server error while deleting product", {},
                         FALSE, t, n, c))
    ELSE IF ~Exists(t, parseInt(p))
    THEN Result(404, <<>>, "Product not found", {}, FALSE, t, n, c)
    ELSE Result(200, <<>>, "", {}, FALSE, Remove(t, parseInt(p)), n, c)

\* the values a list request may carry in its filter query parameter
NoQuery == "<none>"

\* Product.find(filter) without sort: the rows come in the order o the store yields
listProducts(q, up, o, t, n, c) ==
    IF ~up
    THEN DbFailed(Result(500, <<>>, "Server error while fetching products", {},
                         FALSE, t, n, c))
    ELSE [Result(200, <<>>, "", {}, FALSE, t, n, c) EXCEPT !.list =
            InOrder(t, o, IF q = NoQuery \/ q = ""
                          THEN Rows(t)
                          ELSE {r \in Rows(t) : r.f["category"] = q})]

\* app.js global error handler, for an error err that a middleware passed to next()
productErrorHandler(err, md, t, n, c) ==
    LET r == Result(IF err.statusCode # 0 THEN err.statusCode ELSE 500, <<>>,
                    IF md = "production" THEN "Internal Server Error" ELSE err.message,
                    {}, FALSE, t, n, c)
    IN IF md = "production" THEN r ELSE WithDetail(r, err.message)


(***************************************************************************)
(* laravel-mysql: /api/posts                                               *)
(***************************************************************************)
LPostFields == {"title", "content", "author", "published"}

LPostBodies ==
    {EmptyBody,
     PostBody("a", "a"), PostBody(" a", "b"), PostBody("5", "a"),
     [k \in {"title", "content", "published"} |-> IF k = "published" THEN "TRUE" ELSE "b"],
     [k \in {"content"} |-> "a"],
     [k \in {"title"} |-> "b"], [k \in {"title"} |-> ""],
     [k \in {"author"} |-> "b"],
     [k \in {"published"} |-> "TRUE"], [k \in {"published"} |-> "yes"]}

\* the TrimStrings and ConvertEmptyStringsToNull middleware of the default stack
laravelInput(body) ==
    [k \in DOMAIN body |->
       IF IsString(body[k]) THEN (IF Trim(body[k]) = "" THEN Null ELSE Trim(body[k]))
       ELSE body[k]]

\* the rules 'string' and 'boolean' for the value of key k
lpostRuleFails(k, v) ==
    IF k = "published" THEN v \notin {"TRUE", "FALSE", "0", "1"} ELSE ~IsString(v)

\* the keys $request->validate rejects; required lists the keys ruled 'required'
lpostErrors(in, required) ==
    {k \in LPostFields :
       IF Has(in, k) THEN lpostRuleFails(k, in[k]) ELSE k \in required}

\* the attributes validate() returns: the ruled keys the request carries
lpostValidated(in) == [k \in DOMAIN in \cap LPostFields |-> in[k]]

\* the boolean cast of the published attribute
lpostCast(k, v) == IF k = "published" THEN (IF v \in {"TRUE", "1"} THEN "TRUE" ELSE "FALSE")
                   ELSE v

lpostDefault(k) == CASE k = "author" -> "Anonymous" [] k = "published" -> "FALSE"
                     [] OTHER -> Null

\* the framework's rendering of an exception no render callback handles:
\* "Server Error" in production, the exception with its trace under APP_DEBUG
laravelError(msg, md, t, n, c) ==
    IF md = "production" THEN Result(500, <<>>, "Server Error", {}, FALSE, t, n, c)
    ELSE WithDetail(Result(500, <<>>, msg, {}, TRUE, t, n, c), msg)

PostController_store(body, up, md, t, n, c) ==
    LET in == laravelInput(body) IN
    IF lpostErrors(in, {"title", "content"}) # {}
    THEN Result(422, <<>>, "The given data was invalid",
                lpostErrors(in, {"title", "content"}), FALSE, t, n, c)
    ELSE IF ~up THEN DbFailed(laravelError(ConnRefused, md, t, n, c))
    ELSE LET r == Row(n, [k \in LPostFields |->
                            IF Has(in, k) THEN lpostCast(k, in[k]) ELSE lpostDefault(k)],
                      c + 1, c + 1)
         IN Result(201, <<r>>, "", {}, FALSE, Insert(t, r), n + 1, c + 1)

PostController_show(p, up, md, t, n, c) ==
    IF ~up THEN DbFailed(laravelError(ConnRefused, md, t, n, c))
    ELSE IF ~Exists(t, parseInt(p))
    THEN Result(404, <<>>, "Resource not found", {}, FALSE, t, n, c)
    ELSE Result(200, <<t[parseInt(p)]>>, "", {}, FALSE, t, n, c)

\* PostController::update that validates before findOrFail
PostController_update_ValidatesFirst(p, body, up, md, t, n, c) ==
    LET in == laravelInput(body) IN
    IF lpostErrors(in, {}) # {}
    THEN Result(422, <<>>, "The given data was invalid", lpostErrors(in, {}),
                FALSE, t, n, c)
    ELSE IF ~up THEN DbFailed(laravelError(ConnRefused, md, t, n, c))
    ELSE IF ~Exists(t, parseInt(p))
    THEN Result(404, <<>>, "Resource not found", {}, FALSE, t, n, c)
    ELSE LET old == t[parseInt(p)]
             f == [k \in LPostFields |->
                     IF Has(in, k) THEN lpostCast(k, in[k]) ELSE old.f[k]]
             r == Row(old.id, f, old.created, IF f = old.f THEN old.updated ELSE c + 1)
         IN Result(200, <<r>>, "", {}, FALSE, Insert(t, r), n, c + 1)

\* findOrFail, then validate, then update(): a model that is not dirty is not saved
PostController_update(p, body, up, md, t, n, c) ==
    LET in == laravelInput(body) IN
    IF ~up THEN DbFailed(laravelError(ConnRefused, md, t, n, c))
    ELSE IF ~Exists(t, parseInt(p))
    THEN Result(404, <<>>, "Resource not found", {}, FALSE, t, n, c)
    ELSE IF lpostErrors(in, {}) # {}
    THEN Result(422, <<>>, "The given data was invalid", lpostErrors(in, {}),
                FALSE, t, n, c)
    ELSE LET old == t[parseInt(p)]
             f == [k \in LPostFields |->
                     IF Has(in, k) THEN lpostCast(k, in[k]) ELSE old.f[k]]
             r == Row(old.id, f, old.created, IF f = old.f THEN old.updated ELSE c + 1)
         IN Result(200, <<r>>, "", {}, FALSE, Insert(t, r), n, c + 1)

PostController_destroy(p, up, md, t, n, c) ==
    IF ~up THEN DbFailed(laravelError(ConnRefused, md, t, n, c))
    ELSE IF ~Exists(t, parseInt(p))
    THEN Result(404, <<>>, "Resource not found", {}, FALSE, t, n, c)
    ELSE Result(200, <<>>, "", {}, FALSE, Remove(t, parseInt(p)), n, c)

\* filter_var($v, FILTER_VALIDATE_BOOLEAN) as the stored boolean it selects
filterValidateBoolean(q) == IF q \in {"1", "true", "on", "yes"} THEN "TRUE" ELSE "FALSE"

PostController_index(q, up, md, t, n, c) ==
    IF ~up THEN DbFailed(laravelError(ConnRefused, md, t, n, c))
    ELSE [Result(200, <<>>, "", {}, FALSE, t, n, c) EXCEPT !.list =
            OrderByCreatedDesc(IF q = NoQuery
                               THEN Rows(t)
                               ELSE {r \in Rows(t) :
                                       r.f["published"] = filterValidateBoolean(q)})]

(***************************************************************************)
(* springboot-gradle-postgres: /api/v1/items                               *)
(***************************************************************************)
ItemFields == {"name", "description", "price", "quantity", "warehouse", "available"}

ItemBodies ==
    {EmptyBody,
     [k \in {"name"} |-> "a"], [k \in {"name"} |-> " "],
     [k \in {"name", "warehouse"} |-> IF k = "name" THEN "a" ELSE "w1"],
     [k \in {"name", "warehouse"} |-> IF k = "name" THEN "b" ELSE "w2"],
     [k \in {"name", "price"} |-> IF k = "name" THEN "a" ELSE "-1"],
     [k \in {"name", "quantity", "available"} |->
        CASE k = "name" -> "b" [] k = "quantity" -> "5" [] OTHER -> "FALSE"],
     [k \in {"warehouse"} |-> "w1"]}

\* update bodies that also carry the properties the persistence layer manages
ItemUpdateBodies ==
    ItemBodies \cup
    {[k \in {"name", "id", "createdAt"} |->
        CASE k = "name" -> "b" [] k = "id" -> "2" [] OTHER -> "0"]}

\* the value Jackson binds to field k of the request's Item: the field's
\* initializer when the body omits it
itemBound(body, k) ==
    IF Has(body, k) THEN body[k]
    ELSE CASE k = "quantity" -> "0" [] k = "available" -> "TRUE" [] OTHER -> Null

\* the fields @Valid rejects: @NotBlank name, @DecimalMin("0.0") price, @Min(0) quantity
itemErrors(body) ==
    {k \in ItemFields :
       CASE k = "name" -> itemBound(body, k) = Null \/ Trim(itemBound(body, k)) = ""
         [] k \in {"price", "quantity"} -> itemBound(body, k) = "-1"
         [] OTHER -> FALSE}

TypeMismatch == "Failed to convert value of type String to required type Long"

\* handleGeneric that answers BAD_GATEWAY
handleGeneric_BadGateway(msg, t, n, c) ==
    WithDetail(Result(502, <<>>, "An unexpected error occurred", {}, FALSE, t, n, c), msg)

\* GlobalExceptionHandler.handleGeneric
handleGeneric(msg, t, n, c) ==
    WithDetail(Result(500, <<>>, "An unexpected error occurred", {}, FALSE, t, n, c), msg)

\* GlobalExceptionHandler.handleValidation
handleValidation(fields, t, n, c) ==
    Result(400, <<>>, "Validation failed", fields, FALSE, t, n, c)

\* GlobalExceptionHandler.handleResourceNotFound
handleResourceNotFound(t, n, c) ==
    WithDetail(Result(404, <<>>, "Item not found with id", {}, FALSE, t, n, c), "")

createItem(body, up, t, n, c) ==
    IF itemErrors(body) # {} THEN handleValidation(itemErrors(body), t, n, c)
    ELSE IF ~up THEN DbFailed(handleGeneric(ConnRefused, t, n, c))
    ELSE LET r == Row(n, [k \in ItemFields |-> itemBound(body, k)], c + 1, c + 1)
         IN Result(201, <<r>>, "", {}, FALSE, Insert(t, r), n + 1, c + 1)

getItem(p, up, t, n, c) ==
    IF parseInt(p) = NaN THEN handleGeneric(TypeMismatch, t, n, c)
    ELSE IF ~up THEN DbFailed(handleGeneric(ConnRefused, t, n, c))
    ELSE IF ~Exists(t, parseInt(p)) THEN handleResourceNotFound(t, n, c)
    ELSE Result(200, <<t[parseInt(p)]>>, "", {}, FALSE, t, n, c)

\* ItemService.update: every mutable field is set from the request's Item; the
\* entity is flushed, and @UpdateTimestamp applied, only when it is dirty
updateItem(p, body, up, t, n, c) ==
    IF parseInt(p) = NaN THEN handleGeneric(TypeMismatch, t, n, c)
    ELSE IF itemErrors(body) # {} THEN handleValidation(itemErrors(body), t, n, c)
    ELSE IF ~up THEN DbFailed(handleGeneric(ConnRefused, t, n, c))
    ELSE IF ~Exists(t, parseInt(p)) THEN handleResourceNotFound(t, n, c)
    ELSE LET old == t[parseInt(p)]
             f == [k \in ItemFields |-> itemBound(body, k)]
             r == Row(old.id, f, old.created, IF f = old.f THEN old.updated ELSE c + 1)
         IN Result(200, <<r>>, "", {}, FALSE, Insert(t, r), n, c + 1)

deleteItem(p, up, t, n, c) ==
    IF parseInt(p) = NaN THEN handleGeneric(TypeMismatch, t, n, c)
    ELSE IF ~up THEN DbFailed(handleGeneric(ConnRefused, t, n, c))
    ELSE IF ~Exists(t, parseInt(p)) THEN handleResourceNotFound(t, n, c)
    ELSE Result(204, <<>>, "", {}, FALSE, Remove(t, parseInt(p)), n, c)

\* listItems that always calls findAll
listItems_Unfiltered(q, up, o, t, n, c) ==
    IF ~up THEN DbFailed(handleGeneric(ConnRefused, t, n, c))
    ELSE [Result(200, <<>>, "", {}, FALSE, t, n, c) EXCEPT !.list =
            InOrder(t, o, Rows(t))]

\* findAll() and findByWarehouse carry no ORDER BY: the rows come in the order o
listItems(q, up, o, t, n, c) ==
    IF ~up THEN DbFailed(handleGeneric(ConnRefused, t, n, c))
    ELSE [Result(200, <<>>, "", {}, FALSE, t, n, c) EXCEPT !.list =
            InOrder(t, o, IF q # NoQuery /\ Trim(q) # ""
                          THEN {r \in Rows(t) : r.f["warehouse"] = q}
                          ELSE Rows(t))]

(***************************************************************************)
(* springboot-maven-mysql: /api/v1/employees                               *)
(***************************************************************************)
EmployeeFields == {"name", "email", "department", "position", "salary", "active"}

EmployeeBody(nm, em) ==
    [k \in {"name", "email", "department", "position"} |->
       CASE k = "name" -> nm [] k = "email" -> em [] k = "department" -> "d1"
         [] OTHER -> "p1"]

EmployeeBodies ==
    {EmptyBody,
     EmployeeBody("a", "a@x.io"), EmployeeBody("b", "b@x.io"), EmployeeBody("a", "b"),
     [k \in EmployeeFields |->
        CASE k = "name" -> "b" [] k = "email" -> "a@x.io" [] k = "department" -> "d2"
          [] k = "position" -> "p1" [] k = "salary" -> "5" [] OTHER -> "FALSE"],
     [k \in {"name", "email", "department"} |->
        CASE k = "name" -> "a" [] k = "email" -> "a@x.io" [] OTHER -> "d1"],
     [k \in {"salary"} |-> "-1"]}

\* the value Jackson binds to field k of the request's Employee: the field's
\* initializer when the body omits it
employeeBound(body, k) ==
    IF Has(body, k) THEN body[k]
    ELSE IF k = "active" THEN "TRUE" ELSE Null

\* the fields @Valid rejects: @NotBlank name, email, department and position,
\* @Email email, @DecimalMin("0.0") salary
employeeErrors(body) ==
    {k \in EmployeeFields :
       CASE k \in {"name", "department", "position"} ->
              employeeBound(body, k) = Null \/ Trim(employeeBound(body, k)) = ""
         [] k = "email" -> employeeBound(body, k) = Null \/ ~IsEmail(employeeBound(body, k))
         [] k = "salary" -> employeeBound(body, k) = "-1"
         [] OTHER -> FALSE}

\* employees GlobalExceptionHandler.handleGeneral
handleGeneral_employees(msg, t, n, c) ==
    WithDetail(Result(500, <<>>, "Internal Server Error", {}, FALSE, t, n, c), msg)

\* employees GlobalExceptionHandler.handleValidation
handleValidation_employees(fields, t, n, c) ==
    Result(400, <<>>, "Validation Failed", fields, FALSE, t, n, c)

\* employees GlobalExceptionHandler.handleNotFound
handleNotFound(t, n, c) ==
    Result(404, <<>>, "Not Found", {}, FALSE, t, n, c)

createEmployee(body, up, t, n, c) ==
    IF employeeErrors(body) # {} THEN handleValidation_employees(employeeErrors(body), t, n, c)
    ELSE IF ~up THEN DbFailed(handleGeneral_employees(ConnRefused, t, n, c))
    ELSE IF EmailTaken(t, n, body["email"])
    THEN DbFailed(handleGeneral_employees(DuplicateEntry, t, n, c))
    ELSE LET r == Row(n, [k \in EmployeeFields |-> employeeBound(body, k)], c + 1, c + 1)
         IN Result(201, <<r>>, "", {}, FALSE, Insert(t, r), n + 1, c + 1)

\* EmployeeController.listEmployees: findByDepartment when the parameter is
\* present, findAll otherwise; neither carries an ORDER BY
listEmployees(q, up, o, t, n, c) ==
    IF ~up THEN DbFailed(handleGeneral_employees(ConnRefused, t, n, c))
    ELSE [Result(200, <<>>, "", {}, FALSE, t, n, c) EXCEPT !.list =
            InOrder(t, o, IF q # NoQuery
                          THEN {r \in Rows(t) : r.f["department"] = q}
                          ELSE Rows(t))]

getEmployee(p, up, t, n, c) ==
    IF parseInt(p) = NaN THEN handleGeneral_employees(TypeMismatch, t, n, c)
    ELSE IF ~up THEN DbFailed(handleGeneral_employees(ConnRefused, t, n, c))
    ELSE IF ~Exists(t, parseInt(p)) THEN handleNotFound(t, n, c)
    ELSE Result(200, <<t[parseInt(p)]>>, "", {}, FALSE, t, n, c)

\* EmployeeService.update that keeps a field the body omits
updateEmployee_Merge(p, body, up, t, n, c) ==
    IF parseInt(p) = NaN THEN handleGeneral_employees(TypeMismatch, t, n, c)
    ELSE IF employeeErrors(body) # {}
    THEN handleValidation_employees(employeeErrors(body), t, n, c)
    ELSE IF ~up THEN DbFailed(handleGeneral_employees(ConnRefused, t, n, c))
    ELSE IF ~Exists(t, parseInt(p)) THEN handleNotFound(t, n, c)
    ELSE LET old == t[parseInt(p)]
             f == [k \in EmployeeFields |-> IF Has(body, k) THEN body[k] ELSE old.f[k]]
             r == Row(old.id, f, old.created, IF f = old.f THEN old.updated ELSE c + 1)
         IN IF EmailTaken(t, old.id, f["email"])
            THEN DbFailed(handleGeneral_employees(DuplicateEntry, t, n, c))
            ELSE Result(200, <<r>>, "", {}, FALSE, Insert(t, r), n, c + 1)

\* EmployeeController.updateEmployee, EmployeeService.update: every setter is
\* called with the request's Employee; save() flushes, and @UpdateTimestamp
\* applies, only when the entity is dirty
updateEmployee(p, body, up, t, n, c) ==
    IF parseInt(p) = NaN THEN handleGeneral_employees(TypeMismatch, t, n, c)
    ELSE IF employeeErrors(body) # {}
    THEN handleValidation_employees(employeeErrors(body), t, n, c)
    ELSE IF ~up THEN DbFailed(handleGeneral_employees(ConnRefused, t, n, c))
    ELSE IF ~Exists(t, parseInt(p)) THEN handleNotFound(t, n, c)
    ELSE LET old == t[parseInt(p)]
             f == [k \in EmployeeFields |-> employeeBound(body, k)]
             r == Row(old.id, f, old.created, IF f = old.f THEN old.updated ELSE c + 1)
         IN IF EmailTaken(t, old.id, f["email"])
            THEN DbFailed(handleGeneral_employees(DuplicateEntry, t, n, c))
            ELSE Result(200, <<r>>, "", {}, FALSE, Insert(t, r), n, c + 1)

deleteEmployee(p, up, t, n, c) ==
    IF parseInt(p) = NaN THEN handleGeneral_employees(TypeMismatch, t, n, c)
    ELSE IF ~up THEN DbFailed(handleGeneral_employees(ConnRefused, t, n, c))
    ELSE IF ~Exists(t, parseInt(p)) THEN handleNotFound(t, n, c)
    ELSE Result(204, <<>>, "", {}, FALSE, Remove(t, parseInt(p)), n, c)

(***************************************************************************)
(* nestjs-postgres: /users                                                 *)
(***************************************************************************)
UserFields == {"name", "email", "role", "isActive"}

Roles == {"admin", "user", "moderator"}

UserBodies ==
    {EmptyBody,
     StudentBody("a", "a@x.io"), StudentBody("b", "b@x.io"), StudentBody("a", "b"),
     [k \in {"name"} |-> "b"], [k \in {"name"} |-> "5"],
     [k \in {"email"} |-> "b@x.io"],
     [k \in {"role"} |-> "admin"], [k \in {"role"} |-> "Z"],
     [k \in {"isActive"} |-> "FALSE"],
     [k \in {"foo"} |-> "a"]}

\* update bodies that also carry the columns TypeORM generates
UserUpdateBodies ==
    UserBodies \cup
    {[k \in {"id"} |-> "2"],
     [k \in {"name", "createdAt"} |-> IF k = "name" THEN "b" ELSE "0"]}

\* the properties class-validator rejects; required lists the properties that
\* carry no @IsOptional
userErrors(body, required) ==
    {k \in UserFields :
       IF Nullish(body, k) THEN k \in required
       ELSE CASE k = "name" -> ~IsString(body[k]) \/ (k \in required /\ body[k] = "")
              [] k = "email" -> ~IsEmail(body[k])
              [] k = "role" -> body[k] \notin Roles
              [] OTHER -> ~IsBoolean(body[k])}

\* whitelist: true strips the properties the DTO does not declare
userWhitelist(body) == [k \in DOMAIN body \cap UserFields |-> body[k]]

userDefault(k) == CASE k = "role" -> "user" [] k = "isActive" -> "TRUE" [] OTHER -> Null

\* the framework's answer to an exception that is no HttpException
nestInternalError(t, n, c) == Result(500, <<>>, "Internal server error", {}, FALSE, t, n, c)

\* ParseIntPipe on the id parameter
nestBadId(t, n, c) ==
    Result(400, <<>>, "Validation failed (numeric string is expected)", {}, FALSE, t, n, c)

UsersService_findOne(i, t) == IF Exists(t, i) THEN <<t[i]>> ELSE <<>>

UsersController_create(body, up, t, n, c) ==
    LET dto == userWhitelist(body) IN
    IF userErrors(body, {"name", "email"}) # {}
    THEN Result(400, <<>>, "Bad Request", userErrors(body, {"name", "email"}),
                FALSE, t, n, c)
    ELSE IF ~up \/ EmailTaken(t, n, dto["email"])
    THEN DbFailed(nestInternalError(t, n, c))
    ELSE LET r == Row(n, [k \in UserFields |->
                            IF Has(dto, k) THEN dto[k] ELSE userDefault(k)],
                      c + 1, c + 1)
         IN Result(201, <<r>>, "", {}, FALSE, Insert(t, r), n + 1, c + 1)

\* findAll whose find() carries no order option
UsersController_findAll_Unordered(up, o, t, n, c) ==
    IF ~up THEN DbFailed(nestInternalError(t, n, c))
    ELSE [Result(200, <<>>, "", {}, FALSE, t, n, c) EXCEPT !.list = InOrder(t, o, Rows(t))]

\* UsersController.findAll: UsersService.findAll, order: { createdAt: 'DESC' };
\* the order o the store would yield without it plays no part
UsersController_findAll(up, o, t, n, c) ==
    IF ~up THEN DbFailed(nestInternalError(t, n, c))
    ELSE [Result(200, <<>>, "", {}, FALSE, t, n, c)
            EXCEPT !.list = OrderByCreatedDesc(Rows(t))]

UsersController_findOne(p, up, t, n, c) ==
    IF parseInt(p) = NaN THEN nestBadId(t, n, c)
    ELSE IF ~up THEN DbFailed(nestInternalError(t, n, c))
    ELSE IF UsersService_findOne(parseInt(p), t) = <<>>
    THEN Result(404, <<>>, "User not found", {}, FALSE, t, n, c)
    ELSE Result(200, UsersService_findOne(parseInt(p), t), "", {}, FALSE, t, n, c)

\* UsersService.update: Object.assign(user, dto) copies every property of the
\* dto onto the entity, then save(), which issues an UPDATE, and moves
\* updatedAt, only when a column changed
UsersService_update(i, dto, t, n, c) ==
    IF UsersService_findOne(i, t) = <<>>
    THEN Result(404, <<>>, "User not found", {}, FALSE, t, n, c)
    ELSE LET old == t[i]
             f == [k \in UserFields |-> IF Has(dto, k) THEN dto[k] ELSE old.f[k]]
             id == IF Has(dto, "id") THEN TextNat(dto["id"]) ELSE i
             created == IF Has(dto, "createdAt") THEN TextNat(dto["createdAt"])
                        ELSE old.created
             r == Row(id, f, created,
                      IF f = old.f /\ id = i /\ created = old.created
                      THEN old.updated ELSE c + 1)
         IN IF EmailTaken(t, id, f["email"]) THEN DbFailed(nestInternalError(t, n, c))
            ELSE Result(200, <<r>>, "", {}, FALSE, Insert(t, r), n, c + 1)

\* update() reached without the ValidationPipe's whitelist
UsersController_update_NoWhitelist(p, body, up, t, n, c) ==
    IF parseInt(p) = NaN THEN nestBadId(t, n, c)
    ELSE IF userErrors(body, {}) # {}
    THEN Result(400, <<>>, "Bad Request", userErrors(body, {}), FALSE, t, n, c)
    ELSE IF ~up THEN DbFailed(nestInternalError(t, n, c))
    ELSE UsersService_update(parseInt(p), body, t, n, c)

UsersController_update(p, body, up, t, n, c) ==
    IF parseInt(p) = NaN THEN nestBadId(t, n, c)
    ELSE IF userErrors(body, {}) # {}
    THEN Result(400, <<>>, "Bad Request", userErrors(body, {}), FALSE, t, n, c)
    ELSE IF ~up THEN DbFailed(nestInternalError(t, n, c))
    ELSE UsersService_update(parseInt(p), userWhitelist(body), t, n, c)

UsersController_remove(p, up, t, n, c) ==
    IF parseInt(p) = NaN THEN nestBadId(t, n, c)
    ELSE IF ~up THEN DbFailed(nestInternalError(t, n, c))
    ELSE IF UsersService_findOne(parseInt(p), t) = <<>>
    THEN Result(404, <<>>, "User not found", {}, FALSE, t, n, c)
    ELSE Result(204, <<>>, "", {}, FALSE, Remove(t, parseInt(p)), n, c)

(***************************************************************************)
(* GET /health                                                             *)
(***************************************************************************)
Healthy(t, n, c) == Result(200, <<>>, "", {}, FALSE, t, n, c)

\* a health response for a failed probe query: status st, the exception's message
Unhealthy(st, t, n, c) ==
    DbFailed(WithDetail(Result(st, <<>>, "error", {}, FALSE, t, n, c), ConnRefused))

\* todoHealth whose catch block forgets res.status(503)
todoHealth_Always200(up, t, n, c) ==
    IF up THEN Probed(Healthy(t, n, c))
    ELSE Probed(DbFailed(WithDetail(Result(200, <<>>, "error", {}, FALSE, t, n, c),
                                    ConnRefused)))

\* react-node backend routes/health.routes.js
todoHealth(up, t, n, c) ==
    Probed(IF up THEN Healthy(t, n, c) ELSE Unhealthy(503, t, n, c))

\* php-mysql HealthController::check: getInstance, then SELECT 1; a failed
\* connection ends the request inside getInstance, before the query
HealthController_check(up, t, n, c) ==
    IF ~up THEN ConnectOnly(DatabaseGetInstance(t, n, c)) ELSE Probed(Healthy(t, n, c))

\* a health handler that answers without sending a query
healthGET_NoQuery(up, t, n, c) == IF up THEN Healthy(t, n, c) ELSE Unhealthy(500, t, n, c)

\* nextjs-postgres api/health/route.js
healthGET(up, t, n, c) == Probed(IF up THEN Healthy(t, n, c) ELSE Unhealthy(500, t, n, c))

\* express-mongo routes/health.routes.js: no query, the driver's readyState decides
productHealth(ready, t, n, c) ==
    IF ready # 1 THEN Result(500, <<>>, "error", {}, FALSE, t, n, c)
    ELSE Healthy(t, n, c)

\* vue-express routes/health.routes.js: no query, the driver's readyState decides
noteHealth(ready, t, n, c) ==
    IF ready # 1 THEN Result(503, <<>>, "", {}, FALSE, t, n, c)
    ELSE Healthy(t, n, c)

\* laravel-mysql HealthController::check
LaravelHealthController_check(up, t, n, c) ==
    Probed(IF up THEN Healthy(t, n, c) ELSE Unhealthy(500, t, n, c))

\* nestjs-postgres HealthController.check
NestHealthController_check(up, t, n, c) ==
    Probed(IF up THEN Healthy(t, n, c) ELSE Unhealthy(503, t, n, c))

\* springboot-maven-mysql HealthController.health: SELECT 1, 500 with the
\* exception's message when it fails
employeeHealth(up, t, n, c) ==
    Probed(IF up THEN Healthy(t, n, c) ELSE Unhealthy(500, t, n, c))

\* the health handler of application a
Health(a, up, ready, t, n, c) ==
    CASE a = "todo" -> todoHealth(up, t, n, c)
      [] a = "student" -> HealthController_check(up, t, n, c)
      [] a = "post" -> healthGET(up, t, n, c)
      [] a = "product" -> productHealth(ready, t, n, c)
      [] a = "lpost" -> LaravelHealthController_check(up, t, n, c)
      [] a = "note" -> noteHealth(ready, t, n, c)
      [] a = "employee" -> employeeHealth(up, t, n, c)
      [] OTHER -> NestHealthController_check(up, t, n, c)

HealthApps == {"todo", "student", "post", "product", "lpost", "user", "note", "employee"}

(***************************************************************************)
(* The HTTP exchange: a handler's result becomes the response, the table,  *)
(* the id sequence and the clock.  deleted and createdWith are history:    *)
(* the keys deleted with success and not created since, and the payload    *)
(* each record was created with while no update or delete touched it.      *)
(***************************************************************************)
\* the primary key a path segment selects
Key(a, p) == IF a = "student" THEN phpInt(p) ELSE parseInt(p)

Success(st) == st \in 200..299

Exchange(op, p, body, q, r) ==
    LET k == Key(app, p)
        removed == IF Success(r.status) THEN DOMAIN table \ DOMAIN r.table ELSE {}
        added == DOMAIN r.table \ DOMAIN table
        touched == IF op \in {"PUT", "DELETE"} /\ Success(r.status) THEN {k} ELSE {}
    IN /\ resp' = [op |-> op, path |-> p, body |-> body, query |-> q,
                   status |-> r.status, row |-> r.row, error |-> r.error,
                   detail |-> r.detail, dbFailed |-> r.dbFailed, ready |-> readyState,
                   probe |-> r.probe,
                   named |-> r.named, stack |-> r.stack, list |-> r.list,
                   dbUp |-> dbUp, gone |-> k \in deleted,
                   fresh |-> k \in DOMAIN createdWith,
                   before |-> IF Exists(table, k) THEN <<table[k]>> ELSE <<>>]
       /\ table' = r.table
       /\ nextId' = r.nextId
       /\ now' = r.now
       /\ deleted' = (deleted \cup removed) \ added
       /\ createdWith' =
            [i \in ((DOMAIN createdWith \ touched) \cup added) \cap DOMAIN r.table |->
               IF i \in added THEN body ELSE createdWith[i]]
       /\ UNCHANGED <<side, app, mode, server, dbUp, dbInit, readyState>>

Listening == server = "listening"

CanWrite == now < MaxClock
CanInsert == now < MaxClock /\ nextId <= MaxId

TodoCreate ==
    /\ app = "todo" /\ Listening /\ CanInsert
    /\ \E b \in TodoBodies :
         Exchange("POST", "", b, "", createTodo(b, dbUp, mode, table, nextId, now))

TodoGet ==
    /\ app = "todo" /\ Listening
    /\ \E p \in PathIds :
         Exchange("GET", p, EmptyBody, "", getTodo(p, dbUp, mode, table, nextId, now))

TodoUpdate ==
    /\ app = "todo" /\ Listening /\ CanWrite
    /\ \E p \in PathIds, b \in TodoBodies :
         Exchange("PUT", p, b, "", updateTodo(p, b, dbUp, mode, table, nextId, now))

TodoDelete ==
    /\ app = "todo" /\ Listening
    /\ \E p \in PathIds :
         Exchange("DELETE", p, EmptyBody, "", deleteTodo(p, dbUp, mode, table, nextId, now))

TodoList ==
    /\ app = "todo" /\ Listening
    /\ Exchange("LIST", "", EmptyBody, "", listTodos(dbUp, mode, table, nextId, now))

StudentIndex ==
    /\ app = "student" /\ Listening
    /\ Exchange("LIST", "", EmptyBody, NoQuery, StudentController_index(dbUp, table, nextId, now))

StudentStore ==
    /\ app = "student" /\ Listening /\ CanInsert
    /\ \E b \in StudentBodies :
         Exchange("POST", "", b, "", StudentController_store(b, dbUp, table, nextId, now))

StudentShow ==
    /\ app = "student" /\ Listening
    /\ \E p \in PathIds :
         Exchange("GET", p, EmptyBody, "", StudentController_show(p, dbUp, table, nextId, now))

StudentPut ==
    /\ app = "student" /\ Listening /\ CanWrite
    /\ \E p \in PathIds, b \in StudentBodies :
         Exchange("PUT", p, b, "", StudentController_update(p, b, dbUp, table, nextId, now))

StudentDestroy ==
    /\ app = "student" /\ Listening
    /\ \E p \in PathIds :
         Exchange("DELETE", p, EmptyBody, "",
                  StudentController_destroy(p, dbUp, table, nextId, now))

\* the posts table exists: only initDb creates it
PostsTable == dbInit = "ok"

PostCreate ==
    /\ app = "post" /\ Listening /\ CanInsert
    /\ \E b \in PostBodies :
         Exchange("POST", "", b, "", PostsPOST(b, dbUp, PostsTable, table, nextId, now))

PostGet ==
    /\ app = "post" /\ Listening
    /\ \E p \in PathIds :
         Exchange("GET", p, EmptyBody, "", PostsGET(p, dbUp, PostsTable, table, nextId, now))

PostPut ==
    /\ app = "post" /\ Listening /\ CanWrite
    /\ \E p \in PathIds, b \in PostBodies :
         Exchange("PUT", p, b, "", PostsPUT(p, b, dbUp, PostsTable, table, nextId, now))

PostDelete ==
    /\ app = "post" /\ Listening
    /\ \E p \in PathIds :
         Exchange("DELETE", p, EmptyBody, "", PostsDELETE(p, dbUp, PostsTable, table, nextId, now))

PostList ==
    /\ app = "post" /\ Listening
    /\ Exchange("LIST", "", EmptyBody, NoQuery,
                PostsList(dbUp, PostsTable, table, nextId, now))

ProductQueries == {NoQuery, "", "books", "food", "Z"}

\* errors that reach the global error handler: a thrown Error, and body-parser's
\* rejection of malformed JSON, which carries statusCode 400
MiddlewareErrors ==
    {[message |-> "Cannot read properties of undefined", statusCode |-> 0],
     [message |-> "Unexpected token in JSON", statusCode |-> 400]}

ProductCreate ==
    /\ app = "product" /\ Listening /\ CanInsert
    /\ \E b \in ProductBodies :
         Exchange("POST", "", b, "", createProduct(b, dbUp, table, nextId, now))

ProductGet ==
    /\ app = "product" /\ Listening
    /\ \E p \in PathIds :
         Exchange("GET", p, EmptyBody, "", getProduct(p, dbUp, table, nextId, now))

ProductUpdate ==
    /\ app = "product" /\ Listening /\ CanWrite
    /\ \E p \in PathIds, b \in ProductUpdateBodies :
         Exchange("PUT", p, b, "", updateProduct(p, b, dbUp, table, nextId, now))

ProductDelete ==
    /\ app = "product" /\ Listening
    /\ \E p \in PathIds :
         Exchange("DELETE", p, EmptyBody, "", deleteProduct(p, dbUp, table, nextId, now))

ProductList ==
    /\ app = "product" /\ Listening
    /\ \E q \in ProductQueries, o \in Arrangements(table) :
         Exchange("LIST", "", EmptyBody, q, listProducts(q, dbUp, o, table, nextId, now))

ProductMiddlewareError ==
    /\ app = "product" /\ Listening
    /\ \E e \in MiddlewareErrors :
         Exchange("ERROR", "", EmptyBody, "", productErrorHandler(e, mode, table, nextId, now))

IntPathIds == {"1", "2"}
LPostQueries == {NoQuery, "", "true", "false", "yes", "Z"}
ItemQueries == {NoQuery, "", " ", "w1", "w2", "Z"}

LPostStore ==
    /\ app = "lpost" /\ Listening /\ CanInsert
    /\ \E b \in LPostBodies :
         Exchange("POST", "", b, "", PostController_store(b, dbUp, mode, table, nextId, now))

LPostShow ==
    /\ app = "lpost" /\ Listening
    /\ \E p \in IntPathIds :
         Exchange("GET", p, EmptyBody, "",
                  PostController_show(p, dbUp, mode, table, nextId, now))

LPostUpdate ==
    /\ app = "lpost" /\ Listening /\ CanWrite
    /\ \E p \in IntPathIds, b \in LPostBodies :
         Exchange("PUT", p, b, "",
                  PostController_update(p, b, dbUp, mode, table, nextId, now))

LPostDestroy ==
    /\ app = "lpost" /\ Listening
    /\ \E p \in IntPathIds :
         Exchange("DELETE", p, EmptyBody, "",
                  PostController_destroy(p, dbUp, mode, table, nextId, now))

LPostIndex ==
    /\ app = "lpost" /\ Listening
    /\ \E q \in LPostQueries :
         Exchange("LIST", "", EmptyBody, q,
                  PostController_index(q, dbUp, mode, table, nextId, now))

ItemCreate ==
    /\ app = "item" /\ Listening /\ CanInsert
    /\ \E b \in ItemBodies :
         Exchange("POST", "", b, "", createItem(b, dbUp, table, nextId, now))

ItemGet ==
    /\ app = "item" /\ Listening
    /\ \E p \in PathIds :
         Exchange("GET", p, EmptyBody, "", getItem(p, dbUp, table, nextId, now))

ItemUpdate ==
    /\ app = "item" /\ Listening /\ CanWrite
    /\ \E p \in PathIds, b \in ItemUpdateBodies :
         Exchange("PUT", p, b, "", updateItem(p, b, dbUp, table, nextId, now))

ItemDelete ==
    /\ app = "item" /\ Listening
    /\ \E p \in PathIds :
         Exchange("DELETE", p, EmptyBody, "", deleteItem(p, dbUp, table, nextId, now))

ItemList ==
    /\ app = "item" /\ Listening
    /\ \E q \in ItemQueries, o \in Arrangements(table) :
         Exchange("LIST", "", EmptyBody, q, listItems(q, dbUp, o, table, nextId, now))

EmployeeCreate ==
    /\ app = "employee" /\ Listening /\ CanInsert
    /\ \E b \in EmployeeBodies :
         Exchange("POST", "", b, "", createEmployee(b, dbUp, table, nextId, now))

EmployeeGet ==
    /\ app = "employee" /\ Listening
    /\ \E p \in PathIds :
         Exchange("GET", p, EmptyBody, "", getEmployee(p, dbUp, table, nextId, now))

EmployeeUpdate ==
    /\ app = "employee" /\ Listening /\ CanWrite
    /\ \E p \in PathIds, b \in EmployeeBodies :
         Exchange("PUT", p, b, "", updateEmployee(p, b, dbUp, table, nextId, now))

EmployeeDelete ==
    /\ app = "employee" /\ Listening
    /\ \E p \in PathIds :
         Exchange("DELETE", p, EmptyBody, "", deleteEmployee(p, dbUp, table, nextId, now))

EmployeeQueries == {NoQuery, "", "d1", "d2"}

EmployeeList ==
    /\ app = "employee" /\ Listening
    /\ \E q \in EmployeeQueries, o \in Arrangements(table) :
         Exchange("LIST", "", EmptyBody, q, listEmployees(q, dbUp, o, table, nextId, now))

UserList ==
    /\ app = "user" /\ Listening
    /\ \E o \in Arrangements(table) :
         Exchange("LIST", "", EmptyBody, NoQuery,
                  UsersController_findAll(dbUp, o, table, nextId, now))

UserCreate ==
    /\ app = "user" /\ Listening /\ CanInsert
    /\ \E b \in UserBodies :
         Exchange("POST", "", b, "", UsersController_create(b, dbUp, table, nextId, now))

UserGet ==
    /\ app = "user" /\ Listening
    /\ \E p \in PathIds :
         Exchange("GET", p, EmptyBody, "",
                  UsersController_findOne(p, dbUp, table, nextId, now))

UserUpdate ==
    /\ app = "user" /\ Listening /\ CanWrite
    /\ \E p \in PathIds, b \in UserUpdateBodies :
         Exchange("PUT", p, b, "", UsersController_update(p, b, dbUp, table, nextId, now))

UserRemove ==
    /\ app = "user" /\ Listening
    /\ \E p \in PathIds :
         Exchange("DELETE", p, EmptyBody, "",
                  UsersController_remove(p, dbUp, table, nextId, now))

GetHealth ==
    /\ app \in HealthApps /\ Listening
    /\ Exchange("HEALTH", "", EmptyBody, "",
                Health(app, dbUp, readyState, table, nextId, now))

(***************************************************************************)
(* Process start-up                                                        *)
(***************************************************************************)
\* the applications whose entry point awaits the database before app.listen
StartupApps == {"todo", "product", "note"}

\* the applications that initialise their database when the process starts
InitApps == StartupApps \cup {"post"}

\* the applications whose health handler reads mongoose.connection.readyState
MongooseApps == {"product", "note"}

\* start() that binds the port without awaiting initDb
TodoStart_ListenFirst ==
    /\ app = "todo" /\ server = "starting"
    /\ server' = "listening"
    /\ dbInit' = IF dbUp THEN "ok" ELSE "failed"
    /\ UNCHANGED <<side, app, mode, dbUp, readyState, table, nextId, now, resp,
                   deleted, createdWith>>

\* react-node server.js start(): initDb, then listen; exit(1) when initDb throws
TodoStart ==
    /\ app = "todo" /\ server = "starting"
    /\ dbInit' = IF dbUp THEN "ok" ELSE "failed"
    /\ server' = IF dbUp THEN "listening" ELSE "exited"
    /\ UNCHANGED <<side, app, mode, dbUp, readyState, table, nextId, now, resp,
                   deleted, createdWith>>

\* express-mongo server.js bootstrap(): connectDB, then listen; exit(1) when it throws
ProductBootstrap ==
    /\ app = "product" /\ server = "starting"
    /\ dbInit' = IF dbUp THEN "ok" ELSE "failed"
    /\ server' = IF dbUp THEN "listening" ELSE "exited"
    /\ readyState' = IF dbUp THEN 1 ELSE 0
    /\ UNCHANGED <<side, app, mode, dbUp, table, nextId, now, resp, deleted, createdWith>>

\* vue-express server.js start(): connectDB, which exits with code 1 when
\* mongoose.connect rejects, then listen
NoteStart ==
    /\ app = "note" /\ server = "starting"
    /\ dbInit' = IF dbUp THEN "ok" ELSE "failed"
    /\ server' = IF dbUp THEN "listening" ELSE "exited"
    /\ readyState' = IF dbUp THEN 1 ELSE 0
    /\ UNCHANGED <<side, app, mode, dbUp, table, nextId, now, resp, deleted, createdWith>>

\* nextjs-postgres instrumentation hook register(): initDb once when the server
\* starts; a failure is logged and the server serves all the same
PostRegister ==
    /\ app = "post" /\ server = "starting"
    /\ dbInit' = IF dbUp THEN "ok" ELSE "failed"
    /\ server' = "listening"
    /\ UNCHANGED <<side, app, mode, dbUp, readyState, table, nextId, now, resp,
                   deleted, createdWith>>

\* the driver notices that the server is gone: readyState leaves 1
MongooseDisconnected ==
    /\ app \in MongooseApps /\ Listening /\ ~dbUp /\ readyState = 1
    /\ readyState' = 0
    /\ UNCHANGED <<side, app, mode, server, dbUp, dbInit, table, nextId, now, resp,
                   deleted, createdWith>>

\* the driver reconnects: readyState returns to 1
MongooseReconnected ==
    /\ app \in MongooseApps /\ Listening /\ dbUp /\ readyState = 0
    /\ readyState' = 1
    /\ UNCHANGED <<side, app, mode, server, dbUp, dbInit, table, nextId, now, resp,
                   deleted, createdWith>>

(***************************************************************************)
(* The datastore becomes unreachable and reachable again                   *)
(***************************************************************************)
DbFail ==
    /\ dbUp
    /\ dbUp' = FALSE
    /\ UNCHANGED <<side, app, mode, server, dbInit, readyState, table, nextId, now, resp,
                   deleted, createdWith>>

DbRecover ==
    /\ ~dbUp
    /\ dbUp' = TRUE
    /\ UNCHANGED <<side, app, mode, server, dbInit, readyState, table, nextId, now, resp,
                   deleted, createdWith>>

(***************************************************************************)
(* The connection accessors: php-mysql Database::getInstance, whose static *)
(* lives for one request, and nextjs-postgres getPool, whose module        *)
(* variable lives as long as the module instance.                          *)
(***************************************************************************)
ConnApps == {"student", "post"}

ConnIdle ==
    /\ instance = 0 /\ opened = 0 /\ returned = {} /\ nextObj = 1 /\ calls = 0
    /\ running = TRUE

\* the handlers' variables while only the accessor is exercised
HandlersIdle ==
    /\ server = "listening" /\ dbInit = "none" /\ readyState = 0
    /\ table = EmptyTable /\ nextId = 1 /\ now = 0
    /\ resp = [NoResp EXCEPT !.dbUp = dbUp]
    /\ deleted = {} /\ createdWith = [i \in {} |-> EmptyBody]

handlerVars == <<server, dbInit, readyState, table, nextId, now, resp, deleted, createdWith>>

CanCall == running /\ calls < MaxCalls /\ nextObj <= MaxObjects

\* Database::getInstance: new PDO when the static is null, exit(1) when the
\* connection fails; the static is returned
Database_getInstance ==
    /\ app = "student" /\ CanCall
    /\ calls' = calls + 1
    /\ IF instance # 0
       THEN /\ returned' = returned \cup {instance}
            /\ UNCHANGED <<instance, opened, nextObj, running>>
       ELSE IF dbUp
       THEN /\ instance' = nextObj /\ nextObj' = nextObj + 1 /\ opened' = opened + 1
            /\ returned' = returned \cup {nextObj}
            /\ UNCHANGED running
       ELSE /\ running' = FALSE
            /\ UNCHANGED <<instance, opened, returned, nextObj>>
    /\ UNCHANGED <<routerVars, raceVars, laterVars, app, mode, dbUp, handlerVars>>

\* the next request: PHP starts it with the class's static at null
PhpRequest ==
    /\ app = "student" /\ calls > 0
    /\ instance' = 0 /\ opened' = 0 /\ returned' = {} /\ calls' = 0 /\ running' = TRUE
    /\ UNCHANGED <<routerVars, raceVars, laterVars, app, mode, dbUp, handlerVars, nextObj>>

\* getPool: new Pool when the module variable is unset (no connection is
\* opened yet, so nothing fails); the module variable is returned
getPool ==
    /\ app = "post" /\ CanCall
    /\ calls' = calls + 1
    /\ IF instance # 0
       THEN /\ returned' = returned \cup {instance}
            /\ UNCHANGED <<instance, opened, nextObj>>
       ELSE /\ instance' = nextObj /\ nextObj' = nextObj + 1 /\ opened' = opened + 1
            /\ returned' = returned \cup {nextObj}
    /\ UNCHANGED <<routerVars, raceVars, laterVars, app, mode, dbUp, handlerVars, running>>

\* next dev recompiles a file that imports lib/db.js: the module is evaluated
\* again in the same process and its `let pool` starts unset
HotReload ==
    /\ app = "post" /\ mode = "development" /\ running /\ instance # 0
    /\ instance' = 0
    /\ UNCHANGED <<routerVars, raceVars, laterVars, app, mode, dbUp, handlerVars, opened, returned, nextObj, calls, running>>

(***************************************************************************)
(* php-mysql Router: routes registered by public/index.php, dispatch.      *)
(* A path is the sequence of its segments; "{id}" is a placeholder segment. *)
(***************************************************************************)
strtoupper(m) ==
    CASE m = "get" -> "GET" [] m = "put" -> "PUT" [] m = "delete" -> "DELETE"
      [] m = "post" -> "POST" [] OTHER -> m

IsPlaceholder(seg) == seg = "{id}"

NoParams == [k \in {} |-> ""]

\* addRoute: the method upper-cased, the path as an anchored pattern
addRoute(method, path, class, action) ==
    [method |-> strtoupper(method), pattern |-> path, class |-> class, action |-> action]

\* index.php: the routes in the order of their registration
Routes ==
    <<addRoute("GET", <<"health">>, "HealthController", "check"),
      addRoute("GET", <<"api", "students">>, "StudentController", "index"),
      addRoute("POST", <<"api", "students">>, "StudentController", "store"),
      addRoute("GET", <<"api", "students", "{id}">>, "StudentController", "show"),
      addRoute("PUT", <<"api", "students", "{id}">>, "StudentController", "update"),
      addRoute("DELETE", <<"api", "students", "{id}">>, "StudentController", "destroy")>>

\* preg_match without the closing anchor: a prefix of the path is enough
RECURSIVE pregMatch_Unanchored(_, _)
pregMatch_Unanchored(pattern, uri) ==
    IF pattern = <<>> THEN [ok |-> TRUE, params |-> NoParams]
    ELSE IF uri = <<>> THEN [ok |-> FALSE, params |-> NoParams]
    ELSE LET rest == pregMatch_Unanchored(Tail(pattern), Tail(uri))
         IN IF ~rest.ok THEN rest
            ELSE IF IsPlaceholder(Head(pattern))
            THEN IF Head(uri) = "" THEN [ok |-> FALSE, params |-> NoParams]
                 ELSE [ok |-> TRUE, params |-> [k \in {"id"} |-> Head(uri)]]
            ELSE IF Head(pattern) = Head(uri) THEN rest
            ELSE [ok |-> FALSE, params |-> NoParams]

\* preg_match('#^' . pattern . '$#', uri): literal segments match themselves,
\* (?P<id>[^/]+) matches one non-empty segment and captures it, ^ and $ anchor
\* the match to the whole path
RECURSIVE pregMatch(_, _)
pregMatch(pattern, uri) ==
    IF pattern = <<>> THEN [ok |-> uri = <<>>, params |-> NoParams]
    ELSE IF uri = <<>> THEN [ok |-> FALSE, params |-> NoParams]
    ELSE LET rest == pregMatch(Tail(pattern), Tail(uri))
         IN IF ~rest.ok THEN [ok |-> FALSE, params |-> NoParams]
            ELSE IF IsPlaceholder(Head(pattern))
            THEN IF Head(uri) = "" THEN [ok |-> FALSE, params |-> NoParams]
                 ELSE [ok |-> TRUE, params |-> [k \in {"id"} |-> Head(uri)]]
            ELSE IF Head(pattern) = Head(uri) THEN rest
            ELSE [ok |-> FALSE, params |-> NoParams]

\* the form field _method of a request that carries none
NoField == "<none>"

\* new $class(): StudentController's constructor opens the connection and
\* creates the table, and Database::getInstance ends the request when the
\* connection fails; HealthController has no constructor
Constructs(class, up) == class = "StudentController" => up

\* what dispatch did: the actions it invoked, in order, with their parameters,
\* and the status it (or the failed constructor) set; 0 when it set none
Dispatched(st, er, inv) == [status |-> st, error |-> er, invoked |-> inv]

\* the foreach loop from route i on
RECURSIVE dispatchFrom(_, _, _, _)
dispatchFrom(i, method, uri, up) ==
    IF i > Len(Routes) THEN Dispatched(404, "Route not found", <<>>)
    ELSE IF Routes[i].method # strtoupper(method) THEN dispatchFrom(i + 1, method, uri, up)
    ELSE IF pregMatch(Routes[i].pattern, uri).ok
    THEN IF Constructs(Routes[i].class, up)
         THEN Dispatched(0, "", <<[class |-> Routes[i].class, action |-> Routes[i].action,
                                   params |-> pregMatch(Routes[i].pattern, uri).params]>>)
         ELSE Dispatched(500, "Database connection failed", <<>>)
    ELSE dispatchFrom(i + 1, method, uri, up)

\* dispatch that ignores the _method form field
Router_dispatch_NoOverride(method, uri, field, up) == dispatchFrom(1, method, uri, up)

\* Router::dispatch
Router_dispatch(method, uri, field, up) ==
    dispatchFrom(1, IF method = "POST" /\ field # NoField THEN strtoupper(field) ELSE method,
                 uri, up)

RequestMethods == {"GET", "POST", "PUT", "DELETE", "PATCH", "get", "post"}
FormMethods == {NoField, "PUT", "DELETE", "delete", "PATCH"}
RequestPaths ==
    {<<>>, <<"health">>, <<"Health">>, <<"health", "">>, <<"api">>,
     <<"api", "students">>, <<"api", "students", "">>, <<"api", "students", "1">>,
     <<"api", "students", "abc">>, <<"api", "students", "1", "x">>}

NotRouted == [method |-> "", uri |-> <<>>, field |-> NoField, up |-> TRUE,
              out |-> Dispatched(0, "", <<>>)]

RouterIdle == routed = NotRouted

\* index.php hands the request's method and path to dispatch
Dispatch ==
    /\ app = "student"
    /\ \E m \in RequestMethods, u \in RequestPaths, f \in FormMethods :
         routed' = [method |-> m, uri |-> u, field |-> f, up |-> dbUp,
                    out |-> Router_dispatch(m, u, f, dbUp)]
    /\ UNCHANGED <<connVars, raceVars, laterVars, app, mode, dbUp, handlerVars>>

(***************************************************************************)
(* An update and a delete of the same record, each split at its database   *)
(* calls: nestjs-postgres UsersService (findOne, then save / remove),       *)
(* springboot-maven-mysql EmployeeService (findById, then save / delete,    *)
(* no transaction around the two) and php-mysql Student (findById, UPDATE,  *)
(* findById / findById, DELETE).                                            *)
(***************************************************************************)
RaceApps == {"user", "employee", "student"}

\* the id both requests carry in their path
RaceId == 1
RacePath == "1"

\* the create handler of application a
Create(a, body, t, n, c) ==
    CASE a = "user" -> UsersController_create(body, TRUE, t, n, c)
      [] a = "employee" -> createEmployee(body, TRUE, t, n, c)
      [] OTHER -> StudentController_store(body, TRUE, t, n, c)

\* the update handler of application a, run without interruption
Update(a, body, t, n, c) ==
    CASE a = "user" -> UsersController_update(RacePath, body, TRUE, t, n, c)
      [] a = "employee" -> updateEmployee(RacePath, body, TRUE, t, n, c)
      [] OTHER -> StudentController_update(RacePath, body, TRUE, t, n, c)

BodiesOf(a) ==
    CASE a = "user" -> UserBodies [] a = "employee" -> EmployeeBodies [] OTHER -> StudentBodies

\* the state a successful POST leaves: one record, id 1
Seeded(a) ==
    Create(a, CHOOSE b \in BodiesOf(a) :
                  Create(a, b, EmptyTable, 1, 0).status = 201, EmptyTable, 1, 0)

\* the entity the update handler holds after loading row and applying body:
\* what the handler run alone would store
Merged(a, body, row, n, c) == Update(a, body, Insert(EmptyTable, row), n, c).table[RaceId]

\* the update bodies that pass validation
RaceBodies(a, row, n, c) ==
    {b \in BodiesOf(a) : Update(a, b, Insert(EmptyTable, row), n, c).status = 200}

RaceIdle ==
    race = [u |-> "start", d |-> "start", entity |-> <<>>, found |-> FALSE,
            uStatus |-> 0, dStatus |-> 0, late |-> FALSE]

\* UPDATE ... WHERE id = e.id: changes the row when it is still there
UpdateWhere(t, e) == IF Exists(t, e.id) THEN Insert(t, e) ELSE t

\* an INSERT that carries the entity's own id
typeormInsert_KeepsId(t, n, e) == Insert(t, e)

\* TypeORM save() of an entity whose row is not in the table: INSERT; on
\* PostgreSQL the generated id column is left to the sequence
typeormInsert(t, n, e) == Insert(t, [e EXCEPT !.id = n])

raceRest == <<connVars, routerVars, laterVars, app, mode, server, dbUp, dbInit, readyState, resp,
              deleted, createdWith>>

\* UsersService.findOne / EmployeeService.findById / Student::findById, first
\* call of update: 404 when the row is absent
UpdateFind ==
    /\ app \in RaceApps /\ race.u = "start"
    /\ IF Exists(table, RaceId)
       THEN \E b \in RaceBodies(app, table[RaceId], nextId, now) :
              race' = [race EXCEPT !.u = "loaded",
                                   !.entity = <<Merged(app, b, table[RaceId], nextId, now)>>]
       ELSE race' = [race EXCEPT !.u = "done", !.uStatus = 404]
    /\ UNCHANGED <<raceRest, table, nextId, now>>

\* save(): the ORM first looks the entity's row up to choose between UPDATE
\* and INSERT (TypeORM's subject loader, JPA merge)
UpdateSaveLoad ==
    /\ app \in {"user", "employee"} /\ race.u = "loaded"
    /\ race' = [race EXCEPT !.u = "merged", !.found = Exists(table, RaceId)]
    /\ UNCHANGED <<raceRest, table, nextId, now>>

\* usersRepository.save(user): UPDATE when the row was found, INSERT otherwise
UserSave ==
    /\ app = "user" /\ race.u = "merged"
    /\ IF race.found
       THEN table' = UpdateWhere(table, race.entity[1]) /\ UNCHANGED nextId
       ELSE /\ table' = typeormInsert(table, nextId, race.entity[1])
            /\ nextId' = nextId + 1
    /\ now' = now + 1
    /\ race' = [race EXCEPT !.u = "done", !.uStatus = 200, !.late = race.d = "done"]
    /\ UNCHANGED raceRest

\* employeeRepository.save(existing): merge. A found row is updated, and the
\* flush fails when the row has gone meanwhile. An absent row is inserted
\* under a generated id, or, with newer Hibernate, the merge is rejected as
\* stale
EmployeeSave ==
    /\ app = "employee" /\ race.u = "merged"
    /\ \E rejects \in BOOLEAN :
         IF race.found
         THEN /\ table' = UpdateWhere(table, race.entity[1])
              /\ race' = [race EXCEPT !.u = "done",
                                      !.uStatus = IF Exists(table, RaceId) THEN 200 ELSE 500,
                                      !.late = race.d = "done"]
              /\ UNCHANGED nextId
         ELSE IF rejects
         THEN /\ race' = [race EXCEPT !.u = "done", !.uStatus = 500, !.late = race.d = "done"]
              /\ UNCHANGED <<table, nextId>>
         ELSE /\ table' = Insert(table, [race.entity[1] EXCEPT !.id = nextId])
              /\ nextId' = nextId + 1
              /\ race' = [race EXCEPT !.u = "done", !.uStatus = 200, !.late = race.d = "done"]
    /\ now' = now + 1
    /\ UNCHANGED raceRest

\* Student::update: UPDATE students SET ... WHERE id = ?
StudentWrite ==
    /\ app = "student" /\ race.u = "loaded"
    /\ table' = UpdateWhere(table, race.entity[1])
    /\ now' = now + 1
    /\ race' = [race EXCEPT !.u = "wrote", !.late = race.d = "done"]
    /\ UNCHANGED <<raceRest, nextId>>

\* Student::update returns findById($id); the controller answers 404 when it
\* is false
StudentReread ==
    /\ app = "student" /\ race.u = "wrote"
    /\ race' = [race EXCEPT !.u = "done",
                            !.uStatus = IF Exists(table, RaceId) THEN 200 ELSE 404]
    /\ UNCHANGED <<raceRest, table, nextId, now>>

\* the delete handler's lookup: 404 when the row is absent
DeleteFind ==
    /\ app \in RaceApps /\ race.d = "start"
    /\ race' = IF Exists(table, RaceId) THEN [race EXCEPT !.d = "found"]
               ELSE [race EXCEPT !.d = "done", !.dStatus = 404]
    /\ UNCHANGED <<raceRest, table, nextId, now>>

\* usersRepository.remove / employeeRepository.delete / Student::delete: the
\* DELETE, then 204 (NestJS, Spring) or 200 (PHP)
DeleteRemove ==
    /\ app \in RaceApps /\ race.d = "found"
    /\ table' = IF Exists(table, RaceId) THEN Remove(table, RaceId) ELSE table
    /\ race' = [race EXCEPT !.d = "done", !.dStatus = IF app = "student" THEN 200 ELSE 204]
    /\ UNCHANGED <<raceRest, nextId, now>>

(***************************************************************************)
(* Two updates, or two deletes, of the same record, each split at its      *)
(* database calls.  react-node and nextjs-postgres run one statement per   *)
(* request; php-mysql, nestjs-postgres and springboot-maven-mysql read the *)
(* row first and write afterwards.                                         *)
(***************************************************************************)
PairApps == {"todo", "post", "student", "user", "employee"}

\* the applications whose update or delete is a single SQL statement
OneStatementApps == {"todo", "post"}

PairBodiesOf(a) ==
    CASE a = "todo" -> TodoBodies [] a = "post" -> PostBodies [] OTHER -> BodiesOf(a)

PairCreate(a, body) ==
    CASE a = "todo" -> createTodo(body, TRUE, "production", EmptyTable, 1, 0)
      [] a = "post" -> PostsPOST(body, TRUE, TRUE, EmptyTable, 1, 0)
      [] OTHER -> Create(a, body, EmptyTable, 1, 0)

\* the state a successful POST leaves: one record, id 1
PairSeeded(a) ==
    PairCreate(a, CHOOSE b \in PairBodiesOf(a) : PairCreate(a, b).status = 201)

\* the update handler of application a, run without interruption
PairUpdate(a, body, t, n, c) ==
    CASE a = "todo" -> updateTodo(RacePath, body, TRUE, "production", t, n, c)
      [] a = "post" -> PostsPUT(RacePath, body, TRUE, TRUE, t, n, c)
      [] OTHER -> Update(a, body, t, n, c)

\* the delete handler of a one-statement application
PairDelete(a, t, n, c) ==
    IF a = "todo" THEN deleteTodo(RacePath, TRUE, "production", t, n, c)
    ELSE PostsDELETE(RacePath, TRUE, TRUE, t, n, c)

\* the field each of the two updates sets
PairField(a, i) ==
    IF i = 1 THEN (IF a \in {"todo", "post"} THEN "title" ELSE "name")
    ELSE (CASE a = "todo" -> "completed" [] a = "post" -> "published"
            [] a = "student" -> "grade" [] OTHER -> "role")

\* the bodies request i may carry: its one field, with a value the handler accepts
PairBodies(a, i, row, n, c) ==
    {b \in PairBodiesOf(a) :
        /\ DOMAIN b = {PairField(a, i)}
        /\ PairUpdate(a, b, Insert(EmptyTable, row), n, c).status = 200}

NoRequest == [pc |-> "start", body |-> EmptyBody, entity |-> <<>>, db |-> <<>>, status |-> 0]

PairIdle == pair = [kind |-> "none", r |-> <<NoRequest, NoRequest>>]

\* TypeORM's UPDATE for a found row: the columns in which the entity differs
\* from the row save() has just loaded
UpdateChanged(t, e, d) ==
    IF ~Exists(t, e.id) THEN t
    ELSE Insert(t, [t[e.id] EXCEPT
                      !.f = [k \in DOMAIN e.f |->
                               IF e.f[k] # d.f[k] THEN e.f[k] ELSE t[e.id].f[k]],
                      !.updated = e.updated])

pairRest == <<connVars, routerVars, raceVars, uiVars, pageVars, app, mode, server, dbUp, dbInit, readyState,
              resp, deleted, createdWith>>

\* updateTodo / updatePost, deleteTodo / deletePost: one statement
PairStatement ==
    /\ app \in OneStatementApps
    /\ \E i \in {1, 2} :
         /\ pair.r[i].pc = "start"
         /\ IF pair.kind = "update"
            THEN \E b \in PairBodies(app, i, PairSeeded(app).table[RaceId], nextId, now) :
                   LET r == PairUpdate(app, b, table, nextId, now)
                   IN /\ table' = r.table /\ now' = r.now
                      /\ pair' = [pair EXCEPT !.r[i] = [@ EXCEPT !.pc = "done", !.body = b,
                                                                  !.status = r.status]]
            ELSE LET r == PairDelete(app, table, nextId, now)
                 IN /\ table' = r.table /\ now' = r.now
                    /\ pair' = [pair EXCEPT !.r[i] = [@ EXCEPT !.pc = "done",
                                                                !.status = r.status]]
    /\ UNCHANGED <<pairRest, nextId>>

\* the handler's lookup (findById, findOne): 404 when the row is absent; an
\* update applies its body to the row it has read
PairFind ==
    /\ app \notin OneStatementApps
    /\ \E i \in {1, 2} :
         /\ pair.r[i].pc = "start"
         /\ IF ~Exists(table, RaceId)
            THEN pair' = [pair EXCEPT !.r[i] = [@ EXCEPT !.pc = "done", !.status = 404]]
            ELSE IF pair.kind = "update"
            THEN \E b \in PairBodies(app, i, table[RaceId], nextId, now) :
                   pair' = [pair EXCEPT !.r[i] =
                              [@ EXCEPT !.pc = "loaded", !.body = b,
                                        !.entity = <<Merged(app, b, table[RaceId], nextId, now)>>]]
            ELSE pair' = [pair EXCEPT !.r[i] = [@ EXCEPT !.pc = "loaded",
                                                        !.entity = <<table[RaceId]>>]]
    /\ UNCHANGED <<pairRest, table, nextId, now>>

\* the ORM looks the row up again inside save() (TypeORM) or delete() (JPA em.find)
PairOrmLoad ==
    /\ \/ app = "user" /\ pair.kind = "update"
       \/ app = "employee" /\ pair.kind = "delete"
    /\ \E i \in {1, 2} :
         /\ pair.r[i].pc = "loaded"
         /\ pair' = [pair EXCEPT !.r[i] =
                       [@ EXCEPT !.pc = "merged",
                                 !.db = IF Exists(table, RaceId) THEN <<table[RaceId]>> ELSE <<>>]]
    /\ UNCHANGED <<pairRest, table, nextId, now>>

\* Student::update: UPDATE SET name, email, grade, enrolled, each from the body
\* or else from the row read before
PairStudentUpdate ==
    /\ app = "student" /\ pair.kind = "update"
    /\ \E i \in {1, 2} :
         /\ pair.r[i].pc = "loaded"
         /\ table' = UpdateWhere(table, pair.r[i].entity[1])
         /\ pair' = [pair EXCEPT !.r[i] = [@ EXCEPT !.pc = "wrote"]]
    /\ now' = now + 1
    /\ UNCHANGED <<pairRest, nextId>>

\* Student::update returns findById($id); 404 when it is false
PairStudentReturn ==
    /\ app = "student" /\ pair.kind = "update"
    /\ \E i \in {1, 2} :
         /\ pair.r[i].pc = "wrote"
         /\ pair' = [pair EXCEPT !.r[i] =
                       [@ EXCEPT !.pc = "done",
                                 !.status = IF Exists(table, RaceId) THEN 200 ELSE 404]]
    /\ UNCHANGED <<pairRest, table, nextId, now>>

\* usersRepository.save(user)
PairUserSave ==
    /\ app = "user" /\ pair.kind = "update"
    /\ \E i \in {1, 2} :
         /\ pair.r[i].pc = "merged"
         /\ IF pair.r[i].db = <<>>
            THEN /\ table' = typeormInsert(table, nextId, pair.r[i].entity[1])
                 /\ nextId' = nextId + 1
            ELSE /\ table' = UpdateChanged(table, pair.r[i].entity[1], pair.r[i].db[1])
                 /\ UNCHANGED nextId
         /\ pair' = [pair EXCEPT !.r[i] = [@ EXCEPT !.pc = "done", !.status = 200]]
    /\ now' = now + 1
    /\ UNCHANGED pairRest

\* StudentController::destroy and UsersService.remove: the DELETE statement,
\* whose row count nobody reads, then 200 (PHP) or 204 (NestJS)
PairRemove ==
    /\ app \in {"student", "user"} /\ pair.kind = "delete"
    /\ \E i \in {1, 2} :
         /\ pair.r[i].pc = "loaded"
         /\ pair' = [pair EXCEPT !.r[i] =
                       [@ EXCEPT !.pc = "done",
                                 !.status = IF app = "student" THEN 200 ELSE 204]]
    /\ table' = IF Exists(table, RaceId) THEN Remove(table, RaceId) ELSE table
    /\ UNCHANGED <<pairRest, nextId, now>>

\* employeeRepository.delete(employee): nothing to do when em.find saw no row;
\* otherwise the DELETE at flush, which fails as stale when the row has gone
\* meanwhile and is then answered by handleGeneral
PairEmployeeDelete ==
    /\ app = "employee" /\ pair.kind = "delete"
    /\ \E i \in {1, 2} :
         /\ pair.r[i].pc = "merged"
         /\ pair' = [pair EXCEPT !.r[i] =
                       [@ EXCEPT !.pc = "done",
                                 !.status = IF pair.r[i].db # <<>> /\ ~Exists(table, RaceId)
                                            THEN 500 ELSE 204]]
    /\ table' = IF Exists(table, RaceId) THEN Remove(table, RaceId) ELSE table
    /\ UNCHANGED <<pairRest, nextId, now>>

(***************************************************************************)
(* vue-express backend: /api/v1/notes                                      *)
(***************************************************************************)
NoteFields == {"title", "content", "color", "pinned"}

\* what NoteForm emits: the trimmed title and content and the chosen colour
NoteData(title) ==
    [k \in {"title", "content", "color"} |->
       CASE k = "title" -> title [] k = "content" -> "" [] OTHER -> "yellow"]

\* app.js error handler for an error that is not a ValidationError
noteError(t, n, c) ==
    DbFailed(Result(500, <<>>, "Internal Server Error", {}, FALSE, t, n, c))

\* Note.find().sort({ pinned: -1, createdAt: -1 })
listNotes(up, t, n, c) ==
    IF ~up THEN noteError(t, n, c)
    ELSE [Result(200, <<>>, "", {}, FALSE, t, n, c)
            EXCEPT !.list = OrderByCreatedDesc({r \in Rows(t) : r.f["pinned"] = "TRUE"})
                            \o OrderByCreatedDesc({r \in Rows(t) : r.f["pinned"] # "TRUE"})]

createNote(body, up, t, n, c) ==
    IF ~Has(body, "title") \/ jsFalsy(body["title"]) \/ Trim(body["title"]) = ""
    THEN Result(400, <<>>, "Title is required", {"title"}, FALSE, t, n, c)
    ELSE IF ~up THEN noteError(t, n, c)
    ELSE LET r == Row(n, [k \in NoteFields |->
                            CASE k = "title" -> Trim(body["title"])
                              [] k = "pinned" -> (IF Has(body, k) THEN body[k] ELSE "FALSE")
                              [] k = "color" -> (IF Has(body, k) THEN body[k] ELSE "yellow")
                              [] OTHER -> (IF Has(body, k) THEN Trim(body[k]) ELSE "")],
                      c + 1, c + 1)
         IN Result(201, <<r>>, "", {}, FALSE, Insert(t, r), n + 1, c + 1)

\* Note.findByIdAndDelete: 404 when no note had the id
deleteNote(i, up, t, n, c) ==
    IF ~up THEN noteError(t, n, c)
    ELSE IF ~Exists(t, i) THEN Result(404, <<>>, "Note not found", {}, FALSE, t, n, c)
    ELSE Result(200, <<>>, "Note deleted", {}, FALSE, Remove(t, i), n, c)

(***************************************************************************)
(* The frontends: react-node App.jsx and vue-express App.vue.  A handler   *)
(* runs up to its await when the user acts, the backend serves the request *)
(* at some later point, and the handler resumes when the response arrives; *)
(* requests and responses of different calls may overtake each other.      *)
(***************************************************************************)
UiApps == {"todo", "note"}

\* how many times the user submits the form, toggles or deletes
MaxActions == 2

IdText(i) == CHOOSE p \in {"1", "2", "3"} : parseInt(p) = i

Call(kind, id, body) ==
    [kind |-> kind, id |-> id, body |-> body, stage |-> "sent", status |-> 0,
     row |-> <<>>, list |-> <<>>]

UiIdle == ui = [list |-> <<>>, loading |-> FALSE, error |-> FALSE, calls |-> <<>>]

\* the calls the user's own actions made (the fetches follow from them)
UserCalls == {k \in DOMAIN ui.calls : ui.calls[k].kind # "load"}

Unserved(kinds) ==
    Cardinality({k \in DOMAIN ui.calls :
                   ui.calls[k].stage = "sent" /\ ui.calls[k].kind \in kinds})

Shown == {ui.list[k].id : k \in DOMAIN ui.list}

\* the handler of the backend a call reaches
Backend(cl) ==
    IF app = "todo"
    THEN CASE cl.kind = "load" -> listTodos(dbUp, mode, table, nextId, now)
           [] cl.kind = "create" -> createTodo(cl.body, dbUp, mode, table, nextId, now)
           [] cl.kind = "update" ->
                updateTodo(IdText(cl.id), cl.body, dbUp, mode, table, nextId, now)
           [] OTHER -> deleteTodo(IdText(cl.id), dbUp, mode, table, nextId, now)
    ELSE CASE cl.kind = "load" -> listNotes(dbUp, table, nextId, now)
           [] cl.kind = "create" -> createNote(cl.body, dbUp, table, nextId, now)
           [] OTHER -> deleteNote(cl.id, dbUp, table, nextId, now)

uiRest == <<connVars, routerVars, raceVars, pairVars, pageVars, app, mode, server, dbInit, readyState,
            resp, deleted, createdWith>>

\* TodoForm / NoteForm submit -> handleCreate up to its await
UiSubmit ==
    /\ Cardinality(UserCalls) < MaxActions
    /\ now + Unserved({"create", "update"}) < MaxClock
    /\ nextId + Unserved({"create"}) <= MaxId
    /\ ui' = [ui EXCEPT !.error = FALSE,
                        !.calls = Append(@, Call("create", 0,
                                    IF app = "todo" THEN [k \in {"title"} |-> "a"]
                                    ELSE NoteData("a")))]
    /\ UNCHANGED <<uiRest, dbUp, table, nextId, now>>

\* TodoItem checkbox -> handleUpdate(id, { completed }) up to its await
UiToggle ==
    /\ app = "todo" /\ ~ui.loading
    /\ Cardinality(UserCalls) < MaxActions
    /\ now + Unserved({"create", "update"}) < MaxClock
    /\ \E k \in DOMAIN ui.list :
         ui' = [ui EXCEPT !.error = FALSE,
                          !.calls = Append(@, Call("update", ui.list[k].id,
                                      [f \in {"completed"} |->
                                         IF ui.list[k].f["completed"] = "TRUE"
                                         THEN "FALSE" ELSE "TRUE"]))]
    /\ UNCHANGED <<uiRest, dbUp, table, nextId, now>>

\* delete button -> handleDelete(id) up to its await
UiDelete ==
    /\ ~ui.loading
    /\ Cardinality(UserCalls) < MaxActions
    /\ \E i \in Shown :
         ui' = [ui EXCEPT !.error = FALSE,
                          !.calls = Append(@, Call("delete", i, EmptyBody))]
    /\ UNCHANGED <<uiRest, dbUp, table, nextId, now>>

\* the backend handles one of the requests on its way
UiServe ==
    /\ \E k \in DOMAIN ui.calls :
         /\ ui.calls[k].stage = "sent"
         /\ LET r == Backend(ui.calls[k])
            IN /\ table' = r.table /\ nextId' = r.nextId /\ now' = r.now
               /\ ui' = [ui EXCEPT !.calls[k] =
                            [@ EXCEPT !.stage = "served", !.status = r.status,
                                      !.row = r.row, !.list = r.list]]
    /\ UNCHANGED <<uiRest, dbUp>>

Failed(cl) == cl.status >= 400

\* what the awaiting handler does with the response of call cl
\* loadTodos / loadNotes: replace the list; finally clear loading
AfterLoad(u, cl) ==
    IF Failed(cl) THEN [u EXCEPT !.error = TRUE, !.loading = FALSE]
    ELSE [u EXCEPT !.list = cl.list, !.loading = FALSE]

\* handleDelete that drops the todo from the list whatever the response was
AfterReact_Unconfirmed(u, cl) ==
    IF cl.kind = "delete"
    THEN [u EXCEPT !.error = Failed(cl), !.list = SelectSeq(@, LAMBDA r : r.id # cl.id)]
    ELSE IF Failed(cl) THEN [u EXCEPT !.error = TRUE]
    ELSE IF cl.kind = "create" THEN [u EXCEPT !.list = cl.row \o @]
    ELSE [u EXCEPT !.list = [k \in DOMAIN @ |-> IF @[k].id = cl.id THEN cl.row[1] ELSE @[k]]]

\* App.jsx handleCreate, handleUpdate, handleDelete after the await
AfterReact(u, cl) ==
    IF Failed(cl) THEN [u EXCEPT !.error = TRUE]
    ELSE CASE cl.kind = "create" -> [u EXCEPT !.list = cl.row \o @]
           [] cl.kind = "update" ->
                [u EXCEPT !.list = [k \in DOMAIN @ |->
                                      IF @[k].id = cl.id THEN cl.row[1] ELSE @[k]]]
           [] OTHER -> [u EXCEPT !.list = SelectSeq(@, LAMBDA r : r.id # cl.id)]

\* App.vue handleCreate, handleDelete after the first await: loadNotes()
AfterVue(u, cl) ==
    IF Failed(cl) THEN [u EXCEPT !.error = TRUE]
    ELSE [u EXCEPT !.loading = TRUE, !.error = FALSE,
                   !.calls = Append(@, Call("load", 0, EmptyBody))]

\* a response arrives and the handler that awaited it resumes
UiDeliver ==
    /\ \E k \in DOMAIN ui.calls :
         /\ ui.calls[k].stage = "served"
         /\ LET cl == ui.calls[k]
                u == [ui EXCEPT !.calls[k] = [@ EXCEPT !.stage = "done"]]
            IN ui' = IF cl.kind = "load" THEN AfterLoad(u, cl)
                     ELSE IF app = "todo" THEN AfterReact(u, cl)
                     ELSE AfterVue(u, cl)
    /\ UNCHANGED <<uiRest, dbUp, table, nextId, now>>

(***************************************************************************)
(* dotnet-postgres: GET /api/v1/products?skip=&limit=                      *)
(***************************************************************************)
\* the defaults of GetAll's [FromQuery] parameters
DefaultSkip == 0
DefaultLimit == 10

\* a query parameter: <<>> when omitted, else the integer supplied
QueryInts == {<<>>, <<-1>>, <<0>>, <<1>>, <<2>>, <<3>>}

NoPage == [skip |-> <<>>, limit |-> <<>>, status |-> 0, list |-> <<>>,
           rows |-> EmptyTable, dbUp |-> TRUE]

PageIdle == page = NoPage

\* ORDER BY created_at DESC: the arrangements of t's keys with no row before a newer one
NewestFirstOrders(t) ==
    {o \in Arrangements(t) :
        \A i, j \in DOMAIN o : i < j => t[o[i]].created >= t[o[j]].created}

\* GetAllAsync without its Skip call
ProductService_GetAllAsync_NoSkip(skip, limit, o, t) ==
    IF skip < 0 \/ limit < 0 THEN [status |-> 500, list |-> <<>>]
    ELSE LET all == [i \in DOMAIN o |-> t[o[i]]]
             last == IF limit < Len(all) THEN limit ELSE Len(all)
         IN [status |-> 200, list |-> SubSeq(all, 1, last)]

\* ProductService.GetAllAsync: OrderByDescending(CreatedAt).Skip(skip).Take(limit),
\* sent to PostgreSQL as LIMIT limit OFFSET skip, which rejects a negative
\* value of either; o is the order the ORDER BY produced
ProductService_GetAllAsync(skip, limit, o, t) ==
    IF skip < 0 \/ limit < 0 THEN [status |-> 500, list |-> <<>>]
    ELSE LET all == [i \in DOMAIN o |-> t[o[i]]]
             last == IF skip + limit < Len(all) THEN skip + limit ELSE Len(all)
         IN [status |-> 200, list |-> SubSeq(all, skip + 1, last)]

\* ProductsController.GetAll: an omitted parameter takes its default; an
\* exception of the service is answered 500
ProductsController_GetAll(skipQ, limitQ, up, o, t) ==
    IF ~up THEN [status |-> 500, list |-> <<>>]
    ELSE ProductService_GetAllAsync(IF skipQ = <<>> THEN DefaultSkip ELSE skipQ[1],
                                    IF limitQ = <<>> THEN DefaultLimit ELSE limitQ[1], o, t)

pageRest == <<connVars, routerVars, raceVars, pairVars, uiVars, app, mode, server, dbInit,
              readyState, resp, deleted, createdWith>>

\* ProductService.CreateAsync: created_at is PostgreSQL's NOW(), which two
\* inserts close together may share
ProductAdd ==
    /\ dbUp /\ nextId <= MaxId
    /\ \E c \in {now, now + 1} :
         /\ c >= 1 /\ c <= MaxClock
         /\ table' = Insert(table, Row(nextId, [k \in {"name"} |-> "a"], c, c))
         /\ now' = c
    /\ nextId' = nextId + 1
    /\ UNCHANGED <<pageRest, dbUp, page>>

PageGet ==
    /\ \E skipQ \in QueryInts, limitQ \in QueryInts, o \in NewestFirstOrders(table) :
         LET r == ProductsController_GetAll(skipQ, limitQ, dbUp, o, table)
         IN page' = [skip |-> skipQ, limit |-> limitQ, status |-> r.status,
                     list |-> r.list, rows |-> table, dbUp |-> dbUp]
    /\ UNCHANGED <<pageRest, dbUp, table, nextId, now>>

Init ==
    /\ ConnIdle /\ RouterIdle /\ RaceIdle /\ PairIdle /\ UiIdle /\ PageIdle
    /\ app \in Apps
    /\ mode \in Modes
    /\ server = IF app \in InitApps THEN "starting" ELSE "listening"
    /\ dbUp \in BOOLEAN
    /\ dbInit = IF app \in InitApps THEN "pending" ELSE "none"
    /\ readyState = 0
    /\ table = EmptyTable
    /\ nextId = 1
    /\ now = 0
    /\ resp = [NoResp EXCEPT !.dbUp = dbUp]
    /\ deleted = {}
    /\ createdWith = [i \in {} |-> EmptyBody]

Next ==
    \/ TodoCreate \/ TodoGet \/ TodoUpdate \/ TodoDelete \/ TodoList
    \/ StudentStore \/ StudentShow \/ StudentPut \/ StudentDestroy \/ StudentIndex
    \/ PostCreate \/ PostGet \/ PostPut \/ PostDelete \/ PostList
    \/ ProductCreate \/ ProductGet \/ ProductUpdate \/ ProductDelete \/ ProductList
    \/ ProductMiddlewareError
    \/ LPostStore \/ LPostShow \/ LPostUpdate \/ LPostDestroy \/ LPostIndex
    \/ ItemCreate \/ ItemGet \/ ItemUpdate \/ ItemDelete \/ ItemList
    \/ EmployeeCreate \/ EmployeeGet \/ EmployeeUpdate \/ EmployeeDelete \/ EmployeeList
    \/ UserCreate \/ UserGet \/ UserUpdate \/ UserRemove \/ UserList
    \/ GetHealth \/ TodoStart \/ ProductBootstrap \/ NoteStart \/ PostRegister
    \/ MongooseDisconnected \/ MongooseReconnected
    \/ DbFail \/ DbRecover

Spec == Init /\ [][Next]_vars

\* the connection accessors on their own
InitConn ==
    /\ app \in ConnApps /\ mode \in Modes /\ dbUp \in BOOLEAN
    /\ HandlersIdle /\ ConnIdle /\ RouterIdle /\ RaceIdle /\ PairIdle /\ UiIdle /\ PageIdle

NextConn ==
    \/ Database_getInstance \/ PhpRequest \/ getPool \/ HotReload
    \/ DbFail \/ DbRecover

SpecConn == InitConn /\ [][NextConn]_vars

\* the router on its own
InitRouter ==
    /\ app = "student" /\ mode \in Modes /\ dbUp \in BOOLEAN
    /\ HandlersIdle /\ ConnIdle /\ RouterIdle /\ RaceIdle /\ PairIdle /\ UiIdle /\ PageIdle

NextRouter == Dispatch \/ DbFail \/ DbRecover

SpecRouter == InitRouter /\ [][NextRouter]_vars

\* an update and a delete of one record, interleaved at their database calls
InitRace ==
    /\ app \in RaceApps /\ mode \in Modes /\ dbUp = TRUE
    /\ server = "listening" /\ dbInit = "none" /\ readyState = 0
    /\ table = Seeded(app).table /\ nextId = Seeded(app).nextId /\ now = Seeded(app).now
    /\ resp = NoResp /\ deleted = {} /\ createdWith = [i \in {} |-> EmptyBody]
    /\ ConnIdle /\ RouterIdle /\ RaceIdle /\ PairIdle /\ UiIdle /\ PageIdle

NextRace ==
    \/ UpdateFind \/ UpdateSaveLoad \/ UserSave \/ EmployeeSave
    \/ StudentWrite \/ StudentReread \/ DeleteFind \/ DeleteRemove

SpecRace == InitRace /\ [][NextRace]_vars

\* two updates or two deletes of one record, interleaved at their database calls
InitPair ==
    /\ app \in PairApps /\ mode \in Modes /\ dbUp = TRUE
    /\ server = "listening" /\ dbInit = "none" /\ readyState = 0
    /\ table = PairSeeded(app).table /\ nextId = PairSeeded(app).nextId
    /\ now = PairSeeded(app).now
    /\ resp = NoResp /\ deleted = {} /\ createdWith = [i \in {} |-> EmptyBody]
    /\ ConnIdle /\ RouterIdle /\ RaceIdle /\ UiIdle /\ PageIdle
    /\ \E k \in (IF app = "employee" THEN {"delete"} ELSE {"update", "delete"}) :
         pair = [kind |-> k, r |-> <<NoRequest, NoRequest>>]

NextPair ==
    \/ PairStatement \/ PairFind \/ PairOrmLoad \/ PairStudentUpdate \/ PairStudentReturn
    \/ PairUserSave \/ PairRemove \/ PairEmployeeDelete

SpecPair == InitPair /\ [][NextPair]_vars

\* the page just mounted: useEffect / onMounted has called loadTodos / loadNotes
InitUi ==
    /\ app \in UiApps /\ mode = "production" /\ dbUp = TRUE
    /\ server = "listening" /\ dbInit = "none" /\ readyState = 1
    /\ table = EmptyTable /\ nextId = 1 /\ now = 0
    /\ resp = NoResp /\ deleted = {} /\ createdWith = [i \in {} |-> EmptyBody]
    /\ ConnIdle /\ RouterIdle /\ RaceIdle /\ PairIdle /\ PageIdle
    /\ ui = [list |-> <<>>, loading |-> TRUE, error |-> FALSE,
             calls |-> <<Call("load", 0, EmptyBody)>>]

NextUi ==
    \/ UiSubmit \/ UiToggle \/ UiDelete \/ UiServe \/ UiDeliver \/ DbFail \/ DbRecover

SpecUi == InitUi /\ [][NextUi]_vars

\* dotnet-postgres with an empty products table
InitPage ==
    /\ app = "product" /\ mode = "production" /\ dbUp = TRUE
    /\ server = "listening" /\ dbInit = "none" /\ readyState = 0
    /\ table = EmptyTable /\ nextId = 1 /\ now = 0
    /\ resp = NoResp /\ deleted = {} /\ createdWith = [i \in {} |-> EmptyBody]
    /\ ConnIdle /\ RouterIdle /\ RaceIdle /\ PairIdle /\ UiIdle /\ PageIdle

NextPage == ProductAdd \/ PageGet \/ DbFail \/ DbRecover

SpecPage == InitPage /\ [][NextPage]_vars

(***************************************************************************)
(* Vocabulary of the properties                                            *)
(***************************************************************************)
Fields(a) ==
    CASE a = "todo" -> TodoFields [] a = "student" -> StudentFields
      [] a = "post" -> PostFields [] a = "product" -> ProductFields
      [] a = "lpost" -> LPostFields [] a = "item" -> ItemFields
      [] a = "employee" -> EmployeeFields
      [] OTHER -> UserFields

\* the key the last request addressed, and whether its path segment is an id
\* of the form the application's key type has
ReqKey == Key(app, resp.path)
WellFormed(p) == p # "abc"

\* the record the last request addressed, as stored now
Stored == table[ReqKey]

\* applications that validate the body of a PUT before they look the record up
ValidateFirst == {"todo", "product", "item", "user", "employee"}

MergeApps == {"todo", "student", "post", "product", "lpost", "user"}

\* the applications whose UPDATE statement always sets the updated timestamp
AlwaysStamps == {"todo", "post", "product"}

\* the value the update handler of application a stores for value v of field k
UpdateNorm(a, k, v) ==
    CASE a = "todo" -> IF k = "title" THEN Trim(v) ELSE v
      [] a = "student" -> IF k = "enrolled" THEN phpIntCast(v) ELSE v
      [] a = "product" -> productCast(k, v)
      [] a = "lpost" -> lpostCast(k, IF IsString(v) THEN Trim(v) ELSE v)
      [] OTHER -> v

\* the last exchange is a successful update with one field k of the record
OneFieldUpdate(k) ==
    /\ resp.op = "PUT" /\ resp.status = 200
    /\ DOMAIN resp.body = {k} /\ k \in Fields(app)
    /\ resp.before # <<>>

CreateNorm(a, k, v) ==
    CASE a = "todo" -> IF k = "title" THEN Trim(v) ELSE "FALSE"
      [] a = "student" ->
           IF k = "enrolled" THEN (IF v = Null THEN "1" ELSE phpIntCast(v))
           ELSE IF k = "grade" /\ v = Null THEN "C" ELSE v
      [] a = "post" ->
           IF k = "author" /\ (v = Null \/ jsFalsy(v)) THEN "Anonymous"
           ELSE IF k = "published" /\ v = Null THEN "FALSE" ELSE v
      [] a = "product" -> productCast(k, v)
      [] a = "lpost" -> lpostCast(k, IF IsString(v) THEN Trim(v) ELSE v)
      [] OTHER -> v

\* the last exchange fetched a record that was created and not touched since
FetchOfCreated == resp.op = "GET" /\ resp.fresh /\ resp.dbUp /\ WellFormed(resp.path)

Required(a) ==
    CASE a = "todo" -> {"title"} [] a = "student" -> {"name", "email"}
      [] a = "post" -> {"title", "content"} [] a = "product" -> {"name", "price"}
      [] a = "lpost" -> {"title", "content"} [] a = "item" -> {"name"}
      [] a = "employee" -> {"name", "email", "department", "position"}
      [] OTHER -> {"name", "email"}

\* the required fields the last request's body lacks
Missing == Required(app) \ DOMAIN resp.body

MalformedStatus(a) ==
    CASE a \in {"product", "user"} -> 400
      [] a = "student" -> 404
      [] OTHER -> 500

PutOnAbsent ==
    resp.op = "PUT" /\ resp.dbUp /\ WellFormed(resp.path) /\ resp.before = <<>>

FilterField(a) ==
    CASE a = "product" -> "category" [] a = "lpost" -> "published" [] OTHER -> "warehouse"

FilterApps == {"product", "lpost", "item"}

\* the rows a list response carries
Listed == {resp.list[i] : i \in DOMAIN resp.list}

\* the stored value a query string v denotes for the filter field
QueryValue(a, v) ==
    IF a = "lpost" THEN (CASE v = "true" -> "TRUE" [] v = "false" -> "FALSE" [] OTHER -> v)
    ELSE v

FilteredList ==
    resp.op = "LIST" /\ resp.status = 200 /\ resp.query # NoQuery /\ app \in FilterApps

ProbeApps == {"todo", "student", "post", "lpost", "user", "employee"}

CatchAllApps == {"todo", "item", "product"}

\* C10 as claimed: in production the body of a 500 response from a catch-all
\* handler carries neither the exception's message nor a stack trace
C10_NoLeakInProduction ==
    (resp.status = 500 /\ mode = "production" /\ app \in CatchAllApps)
        => resp.detail = "" /\ ~resp.stack
(***************************************************************************)
(* C11  The server accepts requests only after the database was            *)
(* initialised; a failed initialisation ends the process before any        *)
(* request is accepted.                                                    *)
(***************************************************************************)
\* C11: in todo, express-mongo and vue-express a listening server, and every
\* exchange it had, comes after the successful initDb or connectDB of this
\* process; after a failed one the process has exited without any exchange
C11_ListenAfterInit ==
    app \in StartupApps
        => /\ (server = "listening" \/ resp.op # "NONE") => dbInit = "ok"
           /\ dbInit = "failed" => server = "exited" /\ resp.op = "NONE"
           /\ dbInit = "pending" => server = "starting"

C11_Witness ==
    app \in StartupApps /\ server = "listening" /\ resp.op # "NONE" /\ dbInit = "ok"
(***************************************************************************)
(* C12  In the Next.js app initDb runs on the first page load and the      *)
(* first API request, so that no query on posts finds the table missing.   *)
(***************************************************************************)
\* C12 as claimed: a request of the Next.js app that finds the datastore
\* reachable has initDb run before its query, so the posts table is there and
\* no query fails for the lack of it
C12_TableBeforeQuery ==
    (app = "post" /\ resp.op \in {"POST", "GET", "PUT", "DELETE", "LIST"} /\ resp.dbUp)
        => resp.detail # NoRelation
(***************************************************************************)
(* C13  A successful PUT on a Spring Boot item or employee replaces all     *)
(* fields.                                                                 *)
(***************************************************************************)
ReplaceApps == {"item", "employee"}

\* the value the request's entity carries for field k
Bound(a, body, k) == IF a = "item" THEN itemBound(body, k) ELSE employeeBound(body, k)

\* the last exchange is a successful PUT on a record of a Spring Boot service
ReplacingPut ==
    app \in ReplaceApps /\ resp.op = "PUT" /\ resp.status = 200 /\ resp.before # <<>>

\* C13: after a successful PUT on an item or an employee every mutable field
\* of the stored record holds the value the request's entity carries: the
\* body's value, or for a field the body omits the entity's initial value
\* (null, quantity 0, available/active true), whatever the field held before
C13_PutReplacesAll ==
    ReplacingPut
        => /\ \A k \in Fields(app) : Stored.f[k] = Bound(app, resp.body, k)
           /\ resp.row = <<Stored>>

\* a PUT that omitted a field holding a value of its own, which is now reset
C13_Witness ==
    /\ ReplacingPut
    /\ \E k \in Fields(app) \ DOMAIN resp.body :
         /\ resp.before[1].f[k] # Bound(app, EmptyBody, k)
         /\ Stored.f[k] = Bound(app, EmptyBody, k)
(***************************************************************************)
(* C14  The id and the creation timestamp of a record never change.        *)
(***************************************************************************)
\* the keys of a body that name the id or the creation timestamp
IdentityKeys == {"id", "_id", "createdAt"}

\* C14: no step changes the id or the creation timestamp of a record that is
\* stored before and after it, whatever the update body carries, also when it
\* carries the id or the creation timestamp themselves
C14_IdentityKept ==
    [][\A i \in DOMAIN table \cap DOMAIN table' :
         /\ table'[i].id = table[i].id /\ table[i].id = i
         /\ table'[i].created = table[i].created]_vars

\* a successful update whose body names the id or the creation timestamp
C14_Witness ==
    /\ resp.op = "PUT" /\ resp.status = 200 /\ resp.before # <<>>
    /\ "createdAt" \in DOMAIN resp.body
    /\ TextNat(resp.body["createdAt"]) # resp.before[1].created
    /\ Stored.created = resp.before[1].created
(***************************************************************************)
(* C15  DELETE /todos/:id is idempotent.                                   *)
(***************************************************************************)
\* C15: with the database reachable, a DELETE /todos/:id on an integer id is
\* answered 200 whether or not the todo exists; afterwards no todo has the id
\* and every other todo is as before, so that a DELETE of an absent id, the
\* second of two among them, changes nothing
C15_DeleteIdempotent ==
    [][(app = "todo" /\ resp' # resp /\ resp'.op = "DELETE" /\ resp'.dbUp
        /\ WellFormed(resp'.path))
         => /\ resp'.status = 200
            /\ table' = [j \in DOMAIN table \ {parseInt(resp'.path)} |-> table[j]]
            /\ (~Exists(table, parseInt(resp'.path)) => table' = table)
            /\ nextId' = nextId]_vars

\* the second DELETE of an id, answered 200 like the first
C15_Witness ==
    app = "todo" /\ resp.op = "DELETE" /\ resp.gone /\ resp.dbUp /\ resp.status = 200

(***************************************************************************)
(* C16  A list response carries the records newest first: of any two       *)
(* records in it, the one created later appears earlier.                   *)
(***************************************************************************)
ListAnswered == resp.op = "LIST" /\ resp.status = 200

NewestFirst ==
    \A i, j \in DOMAIN resp.list :
       resp.list[i].created > resp.list[j].created => i < j

\* the applications whose list query orders by the creation timestamp, descending
OrderedApps == {"todo", "student", "post", "lpost", "user"}

\* C16 as claimed: every list response is ordered newest first
C16_NewestFirstAsClaimed == ListAnswered => NewestFirst

\* C16 amended: the list responses of react-node, php-mysql, nextjs-postgres,
\* laravel-mysql and nestjs-postgres are ordered newest first
C16_NewestFirst == (ListAnswered /\ app \in OrderedApps) => NewestFirst

C16_Witness ==
    /\ ListAnswered /\ app \in OrderedApps /\ Len(resp.list) = 2
    /\ resp.list[1].created > resp.list[2].created
    /\ Listed = Rows(table)

(***************************************************************************)
(* C17  Every call to the connection accessor within its scope (a PHP      *)
(* request, a Node process) returns the same object, and the connection or *)
(* pool is created at most once in that scope.                             *)
(***************************************************************************)
C17_Singleton == Cardinality(returned) <= 1 /\ opened <= 1

\* php-mysql alone: within one request the static is created once
PhpSingleton == app = "student" => (Cardinality(returned) <= 1 /\ opened <= 1)

PhpSingletonReused == app = "student" /\ calls >= 2 /\ opened = 1 /\ returned = {instance}

(***************************************************************************)
(* C18  Router.dispatch invokes exactly one action, that of the first      *)
(* registered route whose method equals the request method and whose       *)
(* pattern matches the entire path, with the named path parameters; when   *)
(* no route matches it invokes no action and responds 404 'Route not       *)
(* found'.                                                                 *)
(***************************************************************************)
\* pattern p matches the entire path u
FullMatch(p, u) ==
    /\ Len(p) = Len(u)
    /\ \A i \in DOMAIN p : IF p[i] = "{id}" THEN u[i] # "" ELSE p[i] = u[i]

\* the named parameters pattern p takes from path u
Named(p, u) ==
    IF \E i \in DOMAIN p : p[i] = "{id}"
    THEN [k \in {"id"} |-> u[CHOOSE i \in DOMAIN p : p[i] = "{id}"]]
    ELSE NoParams

\* the routes registered for method m whose pattern matches the entire path u
Candidates(m, u) ==
    {i \in DOMAIN Routes : Routes[i].method = m /\ FullMatch(Routes[i].pattern, u)}

First(S) == CHOOSE i \in S : \A j \in S : i <= j

\* dispatch invoked the action of route i, once, with the path's parameters
InvokedOnly(i) ==
    routed.out.invoked = <<[class |-> Routes[i].class, action |-> Routes[i].action,
                            params |-> Named(Routes[i].pattern, routed.uri)]>>

NotFound ==
    /\ routed.out.invoked = <<>> /\ routed.out.status = 404
    /\ routed.out.error = "Route not found"

\* the method dispatch looks routes up by
Effective ==
    IF routed.method = "POST" /\ routed.field # NoField
    THEN strtoupper(routed.field) ELSE strtoupper(routed.method)

\* C18 as claimed: routes are looked up by the request method
C18_DispatchAsClaimed ==
    routed.method # ""
        => IF Candidates(routed.method, routed.uri) = {} THEN NotFound
           ELSE InvokedOnly(First(Candidates(routed.method, routed.uri)))

\* C18 amended: routes are looked up by the upper-cased request method, or by
\* the upper-cased _method form field of a POST request; the action is invoked
\* unless constructing its controller ends the request
C18_Dispatch ==
    routed.method # ""
        => IF Candidates(Effective, routed.uri) = {} THEN NotFound
           ELSE LET i == First(Candidates(Effective, routed.uri))
                IN IF Routes[i].class = "StudentController" /\ ~routed.up
                   THEN routed.out.invoked = <<>> /\ routed.out.status = 500
                   ELSE InvokedOnly(i)

C18_Witness ==
    /\ routed.method = "POST" /\ routed.field = "delete"
    /\ Len(routed.out.invoked) = 1
    /\ routed.out.invoked[1].action = "destroy"
    /\ routed.out.invoked[1].params = [k \in {"id"} |-> "abc"]

BothCompleted == race.u = "done" /\ race.d = "done"

PairDone == pair.r[1].pc = "done" /\ pair.r[2].pc = "done"

\* the value request i's body puts in its field when the handler runs alone
Wanted(i) ==
    PairUpdate(app, pair.r[i].body, PairSeeded(app).table, 2, 1).table[RaceId].f[PairField(app, i)]

C21_NoLostUpdate ==
    (pair.kind = "update" /\ PairDone /\ pair.r[1].status = 200 /\ pair.r[2].status = 200)
        => /\ Exists(table, RaceId)
           /\ \A i \in {1, 2} : table[RaceId].f[PairField(app, i)] = Wanted(i)

\* the one-statement handlers alone: both values are kept
OneStatementKeepsBoth == app \in OneStatementApps => C21_NoLostUpdate

OneStatementBothApplied ==
    /\ app \in OneStatementApps /\ pair.kind = "update" /\ PairDone
    /\ pair.r[1].status = 200 /\ pair.r[2].status = 200
    /\ \A i \in {1, 2} : table[RaceId].f[PairField(app, i)] = Wanted(i)
    /\ \E i \in {1, 2} : PairSeeded(app).table[RaceId].f[PairField(app, i)] # Wanted(i)

(***************************************************************************)
(* C22  Two concurrent DELETE requests for the same existing id: exactly   *)
(* one is answered with success (200 or 204) and the other with 404.       *)
(***************************************************************************)
Succeeded(i) == pair.r[i].status \in {200, 204}

C22_OneDeleteSucceeds ==
    (pair.kind = "delete" /\ app \in {"student", "user", "employee"} /\ PairDone)
        => \E i \in {1, 2} : Succeeded(i) /\ pair.r[3 - i].status = 404

\* deletePost's DELETE ... RETURNING tells the two requests apart
PostDeletedOnce ==
    (pair.kind = "delete" /\ app = "post" /\ PairDone)
        => \E i \in {1, 2} : Succeeded(i) /\ pair.r[3 - i].status = 404

PostDeletedTwice == pair.kind = "delete" /\ app = "post" /\ PairDone

\* whatever the answers, the record is gone once both deletes have finished
DeletedAfterBoth == (pair.kind = "delete" /\ PairDone) => ~Exists(table, RaceId)

(***************************************************************************)
(* C23  In the React and Vue frontends, once every API call in flight has  *)
(* completed without error, the displayed list contains exactly the        *)
(* records the backend holds, whatever the order the responses came in.    *)
(***************************************************************************)
AllDelivered == \A k \in DOMAIN ui.calls : ui.calls[k].stage = "done"

NoneFailed == \A k \in DOMAIN ui.calls : ~Failed(ui.calls[k])

C23_ListMatchesBackend ==
    (AllDelivered /\ NoneFailed)
        => /\ {ui.list[k] : k \in DOMAIN ui.list} = Rows(table)
           /\ Len(ui.list) = Cardinality(Rows(table))

(***************************************************************************)
(* C26  The React App changes its todos list only when a response of a     *)
(* successful API call is handled; when a call fails the list is left as   *)
(* it was and the error message is set.                                    *)
(***************************************************************************)
Resumed(k) ==
    /\ k \in DOMAIN ui.calls
    /\ ui.calls[k].stage = "served" /\ ui'.calls[k].stage = "done"

C26_ListFollowsSuccess ==
    [][app = "todo" =>
         /\ ui'.list # ui.list => \E k \in DOMAIN ui.calls : Resumed(k) /\ ~Failed(ui.calls[k])
         /\ \A k \in DOMAIN ui.calls :
              (Resumed(k) /\ Failed(ui.calls[k])) => (ui'.list = ui.list /\ ui'.error)]_vars

\* a delete failed while the list showed todos: they stay, the banner shows
C26_Witness ==
    /\ app = "todo" /\ ui.error /\ ui.list # <<>>
    /\ \E k \in DOMAIN ui.calls :
         /\ ui.calls[k].stage = "done" /\ Failed(ui.calls[k])
         /\ ui.calls[k].kind = "delete" /\ ui.calls[k].id \in Shown

(***************************************************************************)
(* C24  After any sequence of create and update requests every stored      *)
(* record still satisfies the rules its creation enforces: the required    *)
(* fields are not blank and the email is well formed.                      *)
(***************************************************************************)
\* what StudentController::store and the posts POST handler demand of a record
CreationRules(a, r) ==
    CASE a = "student" -> r.f["name"] # "" /\ r.f["email"] # "" /\ IsEmail(r.f["email"])
      [] a = "post" -> Trim(r.f["title"]) # "" /\ Trim(r.f["content"]) # ""
      [] OTHER -> TRUE

C24_RulesKept == \A r \in Rows(table) : CreationRules(app, r)

\* a record never updated satisfies them
CreatedByRules ==
    \A r \in Rows(table) : r.updated = r.created => CreationRules(app, r)

(***************************************************************************)
(* C25  A create request whose email equals the email of a stored record   *)
(* inserts nothing and is answered with a 4xx status.                      *)
(***************************************************************************)
UniqueEmailApps == {"student", "user", "employee"}

\* the last request was a POST carrying the email of a record stored before it
DuplicateEmail ==
    /\ app \in UniqueEmailApps /\ resp.op = "POST" /\ resp.dbUp
    /\ Has(resp.body, "email")
    /\ \E r \in Rows(table) :
         r.f["email"] = resp.body["email"] /\ (resp.row = <<>> \/ r.id # resp.row[1].id)

C25_DuplicateRejected ==
    DuplicateEmail => (resp.status \in 400..499 /\ resp.row = <<>>)

\* the unique index does keep the second record out, whatever the answer
DuplicateNotStored ==
    /\ DuplicateEmail => resp.row = <<>>
    /\ app \in UniqueEmailApps =>
         \A i, j \in DOMAIN table : table[i].f["email"] = table[j].f["email"] => i = j

(***************************************************************************)
(* C27  GET /api/v1/products with skip=s and limit=l returns at most l     *)
(* products (10 when limit is omitted), those at positions s+1 to s+l of   *)
(* the newest-first ordering (s is 0 when skip is omitted), for any        *)
(* integer values of skip and limit.                                       *)
(***************************************************************************)
AskedSkip == IF page.skip = <<>> THEN 0 ELSE page.skip[1]
AskedLimit == IF page.limit = <<>> THEN 10 ELSE page.limit[1]

PageAnswered == page.status # 0 /\ page.dbUp

StoredCount == Cardinality(DOMAIN page.rows)

\* the answer is a stretch of the stored rows from position s+1 on, no row
\* before a newer one, as long as l and the number of rows allow
IsPage(s, l) ==
    /\ Len(page.list) <= l
    /\ Len(page.list) = (IF StoredCount - s < 0 THEN 0 ELSE IF StoredCount - s < l THEN StoredCount - s ELSE l)
    /\ \E o \in NewestFirstOrders(page.rows) :
         \A i \in DOMAIN page.list : page.list[i] = page.rows[o[s + i]]

====
